---- MODULE Spec2Model ----
(***************************************************************************)
(* Library synchronisation of a music provider (MusicProvider.sync_library *)
(* and its per-media-type reconcilers) against the canonical library       *)
(* store and the snapshot cache.                                            *)
(*                                                                         *)
(* One pass is a coroutine: every action below is the code that runs       *)
(* between two awaits, together with the store or cache call that the      *)
(* second await completes.                                                  *)
(***************************************************************************)
EXTENDS Integers, Sequences, FiniteSets, TLC

\* ------------------------------------------------------------------ bounds
MaxPasses == 2
MaxCatalog == 2
MaxFaults == 1
MaxRepeats == 1
MaxFeatures == 2
MaxPages == 4
MaxListed == 3
MaxRounds == 4

\* ------------------------------------------------------------- vocabulary
Instances == {"P1", "P2"}
ItemIds == {"a", "b"}
\* the source items a catalog can hold, by instance and media type
ItemIdsOf(inst, media_type) ==
    IF inst = "P1" /\ media_type \notin {"playlist", "audiobook"} THEN ItemIds ELSE {"a"}
\* the import_as_favorite settings each instance is synced with
FavoriteChoices(inst) == IF inst = "P1" THEN BOOLEAN ELSE {FALSE}
Slots == {1, 2}

MediaTypes ==
    {"artist", "album", "track", "playlist", "podcast", "radio", "audiobook",
     "podcast_episode"}

\* ProviderFeature tokens a provider can declare
LibraryFeature(media_type) == <<"LIBRARY", media_type>>
LibraryEditFeature(media_type) == <<"LIBRARY_EDIT", media_type>>

BrowseFeature == <<"BROWSE", "">>

\* supported_features of the two configured instances
supported_features(inst) ==
    IF inst = "P1"
    THEN {LibraryFeature(t) : t \in MediaTypes \ {"podcast_episode"}}
             \cup {BrowseFeature}
    ELSE {LibraryFeature("artist")}

\* variant: every media type counts as supported
library_supported_Any(inst, media_type) == TRUE

\* MusicProvider.library_supported, self.supported_features as an argument
library_supported_of(features, media_type) ==
    CASE media_type = "artist" -> LibraryFeature("artist") \in features
      [] media_type = "album" -> LibraryFeature("album") \in features
      [] media_type = "track" -> LibraryFeature("track") \in features
      [] media_type = "playlist" -> LibraryFeature("playlist") \in features
      [] media_type = "radio" -> LibraryFeature("radio") \in features
      [] media_type = "audiobook" -> LibraryFeature("audiobook") \in features
      [] media_type = "podcast" -> LibraryFeature("podcast") \in features
      [] OTHER -> FALSE

\* MusicProvider.library_supported of a configured instance
library_supported(inst, media_type) ==
    library_supported_of(supported_features(inst), media_type)

\* variant: the edit test answers as the library test does
library_edit_supported_AsLibrary(features, media_type) ==
    library_supported_of(features, media_type)

\* MusicProvider.library_edit_supported
library_edit_supported(features, media_type) ==
    CASE media_type = "artist" -> LibraryEditFeature("artist") \in features
      [] media_type = "album" -> LibraryEditFeature("album") \in features
      [] media_type = "track" -> LibraryEditFeature("track") \in features
      [] media_type = "playlist" -> LibraryEditFeature("playlist") \in features
      [] media_type = "radio" -> LibraryEditFeature("radio") \in features
      [] media_type = "audiobook" -> LibraryEditFeature("audiobook") \in features
      [] media_type = "podcast" -> LibraryEditFeature("podcast") \in features
      [] OTHER -> FALSE

Min(S) == CHOOSE x \in S : \A y \in S : x <= y

\* ---------------------------------------------------------------- records
\* ProviderMapping: (provider_instance, item_id) is its identity
Mapping(inst, item, in_library, available) ==
    [inst |-> inst, item |-> item, in_library |-> in_library, available |-> available]

SameKey(m, n) == m.inst = n.inst /\ m.item = n.item

\* resume_position_ms and fully_played of an item: None is -1 / "None"
Resume(position, played) == [resume_position_ms |-> position, fully_played |-> played]

NoResume == Resume(-1, "None")

\* a library row that does not exist
NoEntity ==
    [exists |-> FALSE, favorite |-> FALSE, mappings |-> {}, cache_checksum |-> 0,
     resume |-> NoResume]

\* the local variable library_item / library_track: None is item_id 0
NoneItem ==
    [item_id |-> 0, favorite |-> FALSE, mappings |-> {}, cache_checksum |-> 0,
     resume |-> NoResume]

\* a provider item before the iterator has yielded one
NoProvItem ==
    [item_id |-> "", maps |-> <<>>, favorite |-> FALSE, cache_checksum |-> 0,
     resume |-> NoResume]

AsItem(id, e) ==
    [item_id |-> id, favorite |-> e.favorite, mappings |-> e.mappings,
     cache_checksum |-> e.cache_checksum, resume |-> e.resume]

RangeOf(s) == {s[i] : i \in 1..Len(s)}

\* MediaItem.available: any provider mapping is available
ItemAvailable(mappings) == \E m \in mappings : m.available

\* --------------------------------------------------- library store (tables)
\* A table is the sequence of rows of one media controller; the row number is
\* the database id, ids are handed out in increasing order and never reused.

Exists(tbl, id) == id \in 1..Len(tbl) /\ tbl[id].exists

HasKey(e, inst, item) == \E m \in e.mappings : m.inst = inst /\ m.item = item

\* rows written by maps replace the rows with the same (instance, item id)
Upsert(mappings, maps) ==
    {m \in mappings : \A n \in maps : ~SameKey(m, n)} \cup maps

\* controller.get_library_item_by_prov_mappings: 0 when no row matches
LookupByMappings(tbl, maps) ==
    LET hits(i) == {id \in 1..Len(tbl) :
                       tbl[id].exists /\ HasKey(tbl[id], maps[i].inst, maps[i].item)}
        idx == {i \in 1..Len(maps) : hits(i) # {}}
    IN IF idx = {} THEN 0 ELSE Min(hits(Min(idx)))

\* rows of other providers that describe the same media object as the item
\* (the store matches on metadata, which the model identifies with the source
\* item id); a row of the item's own provider is found by the lookup only
MatchIds(tbl, item) ==
    {id \in 1..Len(tbl) :
        /\ tbl[id].exists
        /\ \E m \in tbl[id].mappings :
              m.item = item.item_id /\ \A n \in RangeOf(item.maps) : n.inst # m.inst}

NewEntity(item) ==
    [exists |-> TRUE, favorite |-> item.favorite, mappings |-> RangeOf(item.maps),
     cache_checksum |-> item.cache_checksum, resume |-> item.resume]

MergeEntity(e, item) ==
    [e EXCEPT !.mappings = Upsert(e.mappings, RangeOf(item.maps)),
              !.cache_checksum = item.cache_checksum,
              !.resume =
                  Resume(IF item.resume.resume_position_ms = -1
                         THEN e.resume.resume_position_ms
                         ELSE item.resume.resume_position_ms,
                         IF item.resume.fully_played = "None"
                         THEN e.resume.fully_played
                         ELSE item.resume.fully_played)]

\* controller.add_item_to_library: the id of the row the item ends up in
AddedId(tbl, item) ==
    IF MatchIds(tbl, item) # {} THEN Min(MatchIds(tbl, item)) ELSE Len(tbl) + 1

AddItem(tbl, item) ==
    IF MatchIds(tbl, item) # {}
    THEN [tbl EXCEPT ![Min(MatchIds(tbl, item))] = MergeEntity(@, item)]
    ELSE Append(tbl, NewEntity(item))

\* controller.update_item_in_library
UpdateItem(tbl, id, item) == [tbl EXCEPT ![id] = MergeEntity(@, item)]

\* controller.set_favorite
SetFavorite(tbl, id, favorite) ==
    IF Exists(tbl, id) THEN [tbl EXCEPT ![id].favorite = favorite] ELSE tbl

\* controller.set_provider_mappings
SetProviderMappings(tbl, id, mappings) ==
    IF Exists(tbl, id)
    THEN [tbl EXCEPT ![id].mappings = Upsert(@, mappings)]
    ELSE tbl

\* controller.remove_item_from_library
RemoveItem(tbl, id) ==
    IF id \in 1..Len(tbl) THEN [tbl EXCEPT ![id] = NoEntity] ELSE tbl

\* the tracks a recursive album removal takes with it: those of the album's
\* source items
AlbumTrackIds(tracks, album) ==
    {id \in 1..Len(tracks) :
        tracks[id].exists /\
        \A m \in tracks[id].mappings : \E a \in album.mappings : a.item = m.item}

RemoveTracks(tracks, ids) ==
    [id \in 1..Len(tracks) |-> IF id \in ids THEN NoEntity ELSE tracks[id]]

\* ------------------------------------------------ reconciler (pure parts)
\* variant: the in_library flags are not compared
_check_provider_mappings_AvailableOnly(instance_id, library_item, provider_item, in_library) ==
    IF Len(provider_item.maps) = 0 THEN "false"
    ELSE LET provider_mapping == provider_item.maps[1]
             library_mapping == {x \in library_item.mappings :
                                    /\ x.inst = provider_mapping.inst
                                    /\ x.item = provider_mapping.item}
         IN IF provider_mapping.item # provider_item.item_id THEN "raise"
            ELSE IF provider_mapping.inst # instance_id THEN "raise"
            ELSE IF library_mapping = {} THEN "false"
            ELSE IF \E x \in library_mapping :
                        provider_mapping.available = x.available
                 THEN "true" ELSE "false"

\* MusicProvider._check_provider_mappings: "raise", "true" or "false".
\* provider_item.provider_mappings is iterated and the first iteration returns.
_check_provider_mappings(instance_id, library_item, provider_item, in_library) ==
    IF Len(provider_item.maps) = 0 THEN "false"
    ELSE LET provider_mapping == provider_item.maps[1]
             library_mapping == {x \in library_item.mappings :
                                    /\ x.inst = provider_mapping.inst
                                    /\ x.item = provider_mapping.item}
         IN IF provider_mapping.item # provider_item.item_id THEN "raise"
            ELSE IF provider_mapping.inst # instance_id THEN "raise"
            ELSE IF library_mapping = {} THEN "false"
            ELSE IF \E x \in library_mapping : in_library # x.in_library THEN "false"
            ELSE IF \E x \in library_mapping :
                        provider_mapping.available = x.available
                 THEN "true" ELSE "false"

\* variant: the check leaves the observed item as it is
MarkInLibrary_Not(instance_id, provider_item, in_library) == provider_item

\* the assignment provider_mapping.in_library = in_library the check makes on
\* the observed item before it compares
MarkInLibrary(instance_id, provider_item, in_library) ==
    IF /\ Len(provider_item.maps) > 0
       /\ provider_item.maps[1].item = provider_item.item_id
       /\ provider_item.maps[1].inst = instance_id
    THEN [provider_item EXCEPT !.maps[1].in_library = in_library]
    ELSE provider_item

\* variant: one of the two values supplied is enough
ResumeChanged_AnySupplied(library_item, prov_item) ==
    /\ \/ prov_item.resume.resume_position_ms # -1
       \/ prov_item.resume.fully_played # "None"
    /\ \/ library_item.resume.resume_position_ms # prov_item.resume.resume_position_ms
       \/ library_item.resume.fully_played # prov_item.resume.fully_played

\* audiobooks: resume_position_ms and fully_played both supplied, and one of
\* them different
ResumeChanged(library_item, prov_item) ==
    /\ prov_item.resume.resume_position_ms # -1
    /\ prov_item.resume.fully_played # "None"
    /\ \/ library_item.resume.resume_position_ms # prov_item.resume.resume_position_ms
       \/ library_item.resume.fully_played # prov_item.resume.fully_played

\* variant: the lookup result is not consulted
Present_Never(library_item) == FALSE

\* "if not library_item" is false: the lookup found a library item
Present(library_item) == library_item.item_id # 0

\* variant: no track is skipped
SkipUnavailable_Never(media_type, library_item, prov_item) == FALSE

\* _sync_library_tracks: if not library_item and not prov_item.available
SkipUnavailable(media_type, library_item, prov_item) ==
    /\ media_type = "track"
    /\ ~Present(library_item)
    /\ ~ItemAvailable(RangeOf(prov_item.maps))

\* The branch of the per-item if/elif chain that is taken:
\* "skip", "add", "set_favorite", "update", "check_update", "nothing", "raise"
Branch(media_type, instance_id, library_item, prov_item, import_as_favorite) ==
    LET present == Present(library_item)
        check == _check_provider_mappings(instance_id, library_item, prov_item, TRUE)
        tail == IF ~library_item.favorite /\ import_as_favorite THEN "set_favorite"
                ELSE IF check = "raise" THEN "raise"
                ELSE IF check = "false" THEN "check_update"
                ELSE "nothing"
    IN IF SkipUnavailable(media_type, library_item, prov_item)
       THEN "skip"
       ELSE IF ~present THEN "add"
       ELSE IF /\ media_type \in {"track", "podcast"}
               /\ ItemAvailable(library_item.mappings)
                    # ItemAvailable(RangeOf(prov_item.maps))
            THEN "update"
       ELSE IF /\ media_type = "playlist"
               /\ library_item.cache_checksum # prov_item.cache_checksum
            THEN "update"
       ELSE tail

\* the chain of _sync_album_tracks / _sync_playlist_tracks
TrackBranch(instance_id, library_track, prov_track) ==
    LET check == _check_provider_mappings(instance_id, library_track, prov_track, TRUE)
    IN IF ~Present(library_track) THEN "add"
       ELSE IF check = "raise" THEN "raise"
       ELSE IF check = "false" THEN "check_update"
       ELSE "nothing"

\* variant: the update after a failed check gets the item as it was yielded
ItemForBranch_Unmarked(branch, instance_id, prov_item, import_as_favorite) ==
    IF branch = "add" /\ import_as_favorite
    THEN [prov_item EXCEPT !.favorite = TRUE]
    ELSE prov_item

\* variant: import_as_favorite is not applied to an item that is added
ItemForBranch_NoFavorite(branch, instance_id, prov_item, import_as_favorite) ==
    IF branch \in {"check_update", "nothing"}
    THEN MarkInLibrary(instance_id, prov_item, TRUE)
    ELSE prov_item

\* the observed item as the store call of the branch receives it
ItemForBranch(branch, instance_id, prov_item, import_as_favorite) ==
    CASE branch = "add" ->
            IF import_as_favorite THEN [prov_item EXCEPT !.favorite = TRUE]
            ELSE prov_item
      [] branch \in {"check_update", "nothing"} ->
            MarkInLibrary(instance_id, prov_item, TRUE)
      [] OTHER -> prov_item

\* ------------------------------------------------ orphan collector (pure)
\* variant: the in_library test of remaining_providers inverted
RemainingProviders_NotInLibrary(instance_id, library_item) ==
    {x.inst : x \in {m \in library_item.mappings :
                        m.inst # instance_id /\ ~m.in_library}}

\* remaining_providers of sync_library
RemainingProviders(instance_id, library_item) ==
    {x.inst : x \in {m \in library_item.mappings :
                        m.inst # instance_id /\ m.in_library}}

\* variant: the flag is cleared on every mapping of the row
Demoted_All(instance_id, mappings) ==
    {[m EXCEPT !.in_library = FALSE] : m \in mappings}

\* variant: the flag is cleared on the mappings of the other instances
Demoted_OtherInstances(instance_id, mappings) ==
    {IF m.inst # instance_id THEN [m EXCEPT !.in_library = FALSE] ELSE m :
        m \in mappings}

\* variant: the cleared mappings are added next to the ones read
Demoted_Added(instance_id, mappings) ==
    mappings \cup {[m EXCEPT !.in_library = FALSE] :
                      m \in {n \in mappings : n.inst = instance_id}}

\* for prov_map in library_item.provider_mappings: ... in_library = False
Demoted(instance_id, mappings) ==
    {IF m.inst = instance_id THEN [m EXCEPT !.in_library = FALSE] ELSE m :
        m \in mappings}

\* ------------------------------------------------------------------- state
VARIABLES
    lib,        \* library store: media type -> table
    snapshot,   \* cache, category library items: media type -> instance -> value
    pass,       \* slot -> the sync_library coroutine running in it
    npass,      \* passes started so far
    faults,     \* store calls that have raised so far
    promoted,   \* history: rows a pass with import_as_favorite made favorite
    env,        \* what stays fixed during a run (see Init)
    browsed,    \* history: how the last call of browse answered
    call        \* the last call of one of the provider's plain methods

vars == <<lib, snapshot, pass, npass, faults, promoted, env, browsed, call>>

StoreTypes == MediaTypes \ {"podcast_episode"}

\* cache.get returns None for a key never set
NoSnapshot == [present |-> FALSE, ids |-> {}]

\* one entry of a pass's call history: the call, the catalog position it was
\* made for (0 in the collector), the row, the mappings read from and handed to
\* the store, and the favorite flag of the item as the catalog yielded it
Ev(op, pos, id, read, written, fav) ==
    [op |-> op, pos |-> pos, id |-> id, read |-> read, written |-> written,
     fav |-> fav]

NoBase == [tables |-> [t \in StoreTypes |-> <<>>], snap |-> NoSnapshot]

\* library and cache entry as a pass of the instance for the type finds them
BaseOf(inst, media_type) ==
    [tables |-> lib, snap |-> snapshot[media_type][inst]]

IdlePass ==
    [pc |-> "idle", inst |-> "P1", media_type |-> "artist",
     import_as_favorite |-> FALSE,
     pos |-> 0,
     prov_item |-> NoProvItem, library_item |-> NoneItem, cur_db_ids |-> {},
     prev |-> NoSnapshot, todo |-> {}, db_id |-> 0,
     children |-> <<>>, cpos |-> 0, page |-> 0,
     \* a repeated pass: the items its iterator still has to yield
     replay |-> FALSE, script |-> <<>>, repeats |-> 0,
     \* history of the pass, read by the properties only
     yields |-> <<>>, calls |-> {}, looked |-> {}, observed |-> {}, raised |-> {},
     hit_add |-> FALSE, failed_in |-> "", lib0 |-> <<>>,
     snap_reads |-> 0, snap_writes |-> 0,
     \* the calls of the pass in the order it made them, and the library and
     \* cache entry it started from
     log |-> <<>>, base |-> NoBase,
     \* the coroutine is suspended at an asyncio.sleep(0)
     slept |-> FALSE,
     \* the places of the catalog items and the ids of the previous list after
     \* which the asyncio.sleep(0) of their loop body was reached
     item_sleeps |-> {}, orphan_sleeps |-> {},
     \* the remove_item_from_library calls made: <<db_id, recursive>>
     removes |-> {},
     \* a pass started again after a cancelled one, and the library and cache
     \* entry the cancelled one had started from
     retry |-> FALSE, origin |-> NoBase]

Terminal == {"idle", "done", "rejected", "failed", "cancelled"}

\* ----------------------------------------------------------- catalog input
\* Item "a" comes in every variant a branch of its media type reads
\* (availability, playlist checksum, audiobook resume state: nothing
\* supplied, both values supplied and differing in one of them); item "b"
\* comes in one. The runs of env.detail add tracks and podcasts "b" that are
\* not available and audiobooks that supply one of the two resume values.
AvailValues(media_type, i) ==
    IF \/ media_type \in {"track", "podcast", "radio"} /\ i = "a"
       \/ media_type \in {"track", "podcast"} /\ env.detail
    THEN BOOLEAN ELSE {TRUE}
ChecksumValues(media_type, i) ==
    IF media_type = "playlist" /\ i = "a" THEN {0, 1} ELSE {0}
ResumeValues(media_type, i) ==
    IF media_type = "audiobook" /\ i = "a"
    THEN {NoResume, Resume(5, "False"), Resume(5, "True")}
            \cup (IF env.detail THEN {Resume(5, "None"), Resume(-1, "True")} ELSE {})
    ELSE {NoResume}

\* PlexProvider._parse_album: album.favorite = userRating == "10.0"; an item
\* without the attribute ("" here) keeps the default, not a favorite
UserRatings(media_type, i) ==
    IF media_type = "album" /\ i = "a" THEN {"", "8.0", "10.0"} ELSE {""}

_parse_album_favorite(userRating) == userRating = "10.0"

ProvItem(inst, i, av, c, r) ==
    [item_id |-> i, maps |-> <<Mapping(inst, i, env.in_library_default, av)>>,
     favorite |-> FALSE, cache_checksum |-> c, resume |-> r]

\* items a provider parser builds: one mapping, of the provider itself, for
\* the item's own id; in_library is left at the default of ProviderMapping
WellFormedItems(inst, media_type) ==
    UNION {{[ProvItem(inst, i, av, c, r) EXCEPT !.favorite = _parse_album_favorite(u)] :
                av \in AvailValues(media_type, i), c \in ChecksumValues(media_type, i),
                r \in ResumeValues(media_type, i), u \in UserRatings(media_type, i)} :
           i \in ItemIdsOf(inst, media_type)}

\* a corrupt response: the mapping names another item
CorruptItems(inst, media_type) ==
    IF media_type = "artist" /\ inst = "P1"
    THEN {[item_id |-> "a",
           maps |-> <<Mapping(inst, "b", env.in_library_default, TRUE)>>,
           favorite |-> FALSE, cache_checksum |-> 0, resume |-> NoResume]}
    ELSE {}

\* what one pull of the catalog iterator can yield
CatalogItems(inst, media_type) ==
    WellFormedItems(inst, media_type) \cup CorruptItems(inst, media_type)

\* get_album_tracks / get_playlist_tracks of the observed parent item
ChildTracks(inst, prov_item) ==
    <<[item_id |-> prov_item.item_id,
       maps |-> <<Mapping(inst, prov_item.item_id, env.in_library_default, TRUE)>>,
       favorite |-> FALSE, cache_checksum |-> 0, resume |-> NoResume]>>

FaultChoices == IF faults < MaxFaults THEN BOOLEAN ELSE {FALSE}

Bump(fault) == IF fault THEN faults + 1 ELSE faults

\* ------------------------------------------------------------------- Init
\* The library a run starts from: empty, or holding item "a" as earlier passes
\* of its owners leave it (each owner synced "a" until its pass changed
\* nothing more: one row, every owner's mapping in_library, the row's id in
\* every owner's snapshot).
SeedOwners(media_type) ==
    {o \in {{}, {"P1"}, {"P1", "P2"}} :
        /\ o # {} => media_type \in StoreTypes
        /\ \A i \in o : library_supported(i, media_type)}

SeedTable(owners) ==
    IF owners = {} THEN <<>>
    ELSE <<[exists |-> TRUE, favorite |-> FALSE,
            mappings |-> {Mapping(i, "a", TRUE, TRUE) : i \in owners},
            cache_checksum |-> 0, resume |-> NoResume]>>

SeedSnapshot(owners, inst) ==
    IF inst \in owners THEN [present |-> TRUE, ids |-> {1}] ELSE NoSnapshot

\* MediaItem.name and MediaItem.uri of an observed item
NameOf(media_type, prov_item) == "The " \o media_type \o " " \o prov_item.item_id

UriOf(media_type, prov_item) ==
    prov_item.maps[1].inst \o "://" \o media_type \o "/" \o prov_item.item_id

\* the values of the playlist-tracks config entry: no playlist, playlist "a"
\* by its name, playlist "a" by its uri, another playlist
PlaylistConfs ==
    {{}, {"The playlist a"}, {"P1://playlist/a"}, {"The playlist z"}}

Envs(conc) ==
    {e \in [scope : {{t} : t \in MediaTypes}, conc : {conc}, cancel : {FALSE},
            in_library_default : BOOLEAN, owners : SUBSET Instances,
            import_tracks : BOOLEAN,
            playlist_tracks : {{}, {"The playlist a"}}, detail : {FALSE}] :
        \E t \in e.scope :
            /\ e.owners \in SeedOwners(t)
            /\ e.import_tracks => t = "album"
            /\ e.playlist_tracks # {} => t = "playlist"}

\* no plain method has been called
NoCall == [fn |-> ""]

InitLibrary(e) ==
    /\ env = e
    /\ lib = [t \in StoreTypes |-> IF t \in e.scope THEN SeedTable(e.owners) ELSE <<>>]
    /\ snapshot = [t \in StoreTypes |-> [i \in Instances |->
                      IF t \in e.scope THEN SeedSnapshot(e.owners, i) ELSE NoSnapshot]]
    /\ pass = [p \in Slots |-> IdlePass]
    /\ npass = 0
    /\ faults = IF e.conc \/ e.cancel THEN MaxFaults ELSE 0
    /\ promoted = {}
    /\ browsed = ""

InitFrom(e) == InitLibrary(e) /\ call = NoCall

\* one media type per run, passes one after the other; the default of
\* ProviderMapping.in_library is set outside this repository, so either value
Init == \E e \in Envs(FALSE) : InitFrom(e)

\* ---------------------------------------------------------------- actions
CanStart(p) ==
    /\ pass[p].pc \in Terminal
    /\ npass < MaxPasses
    /\ IF env.conc THEN TRUE ELSE p = 1

\* a pass of the instance for the media type is in flight: the caller of
\* sync_library starts one pass per instance and media type at a time
Running(inst, media_type) ==
    \E q \in Slots :
        /\ pass[q].pc \notin Terminal
        /\ pass[q].inst = inst
        /\ pass[q].media_type = media_type

\* the media types sync_library dispatches on (lines 660-673)
Dispatched == {"artist", "album", "track", "playlist", "podcast", "radio", "audiobook"}

\* sync_library raises UnsupportedFeaturedException (lines 657-658, 674-676)
Unsupported(inst, media_type) ==
    ~library_supported(inst, media_type) \/ media_type \notin Dispatched

RejectPass(p) ==
    /\ CanStart(p)
    /\ \E inst \in Instances, mt \in env.scope :
         /\ Unsupported(inst, mt)
         /\ pass' = [pass EXCEPT ![p] =
                [IdlePass EXCEPT !.pc = "rejected", !.inst = inst, !.media_type = mt]]
    /\ npass' = npass + 1
    /\ UNCHANGED <<lib, snapshot, faults, promoted, env, browsed, call>>

\* sync_library, lines 657-673: the check passes and the reconciler starts
StartPass(p) ==
    /\ CanStart(p)
    /\ \E inst \in Instances, mt \in env.scope :
       \E fav \in FavoriteChoices(inst) :
         /\ ~Unsupported(inst, mt)
         /\ ~Running(inst, mt)
         /\ pass' = [pass EXCEPT ![p] =
                [IdlePass EXCEPT !.pc = "iter", !.inst = inst, !.media_type = mt,
                                 !.import_as_favorite = fav,
                                 !.base = BaseOf(inst, mt)]]
    /\ npass' = npass + 1
    /\ UNCHANGED <<lib, snapshot, faults, promoted, env, browsed, call>>

\* sync_library called again right after a completed pass, same instance, media
\* type and import_as_favorite, the provider's catalog unchanged
RepeatPass(p) ==
    LET s == pass[p] IN
    /\ s.pc = "done"
    /\ s.repeats < MaxRepeats
    /\ \A q \in Slots \ {p} : pass[q].pc \in Terminal
    /\ pass' = [pass EXCEPT ![p] =
          [IdlePass EXCEPT !.pc = "iter", !.inst = s.inst, !.media_type = s.media_type,
                           !.import_as_favorite = s.import_as_favorite,
                           !.replay = TRUE, !.script = s.yields,
                           !.repeats = s.repeats + 1,
                           !.base = BaseOf(s.inst, s.media_type)]]
    /\ UNCHANGED <<lib, snapshot, npass, faults, promoted, env, browsed, call>>

\* the longest catalog of the run: overlapping passes are explored with short
\* catalogs (and, see InitFrom, without store errors)
CatalogLen == IF env.conc THEN 1 ELSE MaxCatalog

\* what the iterator can yield next: any item of the catalog, or, in a
\* repeated pass, the item the pass before yielded at this place; a pass
\* started again after a cancelled one goes on with the rest of the catalog,
\* which the cancelled pass had not reached
NextItems(s) ==
    IF s.replay /\ s.pos < Len(s.script) THEN {s.script[s.pos + 1]}
    ELSE IF s.replay /\ ~s.retry THEN {}
    ELSE (IF s.pos < CatalogLen THEN CatalogItems(s.inst, s.media_type) ELSE {})

\* how the iterator can end: normally, or (fails) with a source error
EndChoices(s) ==
    IF s.replay THEN (IF s.pos < Len(s.script) THEN {} ELSE {FALSE}) ELSE BOOLEAN

\* async for prov_item in self.get_library_<type>(): the next item, the end
\* of the sequence, or a source error (which leaves sync_library)
\* variant: an error of the catalog iterator ends the loop like exhaustion
AfterCatalog_Collect(fails) == "cache_get"

\* the async for ends: exhausted, sync_library goes on to the cache read; an
\* error of the iterator is not caught and leaves sync_library
AfterCatalog(fails) == IF fails THEN "failed" ELSE "cache_get"

PullItem(p) ==
    LET s == pass[p] IN
    /\ s.pc = "iter"
    /\ \/ \E it \in NextItems(s) :
            pass' = [pass EXCEPT ![p] =
                  [s EXCEPT !.pc = "lookup", !.pos = s.pos + 1, !.prov_item = it,
                            !.slept = FALSE,
                            !.yields = Append(@, it), !.library_item = NoneItem]]
       \/ \E fails \in EndChoices(s) :
            pass' = [pass EXCEPT ![p] =
                  [s EXCEPT !.pc = AfterCatalog(fails),
                            !.slept = FALSE,
                            !.failed_in = IF fails THEN "iterator" ELSE @,
                            !.log = IF fails THEN @
                                    ELSE Append(@, Ev("end", 0, 0, {}, {}, FALSE)),
                            !.prov_item = NoProvItem, !.library_item = NoneItem]]
    /\ UNCHANGED <<lib, snapshot, npass, faults, promoted, env, browsed, call>>

\* library_item = await controller.get_library_item_by_prov_mappings(...)
\* (outside the try: an error leaves sync_library)
Lookup(p) ==
    LET s == pass[p]
        id == LookupByMappings(lib[s.media_type], s.prov_item.maps)
    IN
    /\ s.pc = "lookup"
    /\ \E fault \in FaultChoices :
         /\ faults' = Bump(fault)
         /\ pass' = [pass EXCEPT ![p] =
              IF fault
              THEN [s EXCEPT !.pc = "failed", !.raised = @ \cup {s.pos},
                             !.failed_in = "lookup",
                             !.log = Append(@, Ev("lookup", s.pos, 0, {}, {}, FALSE))]
              ELSE [s EXCEPT !.pc = "merge", !.looked = @ \cup {s.pos},
                             !.log = Append(@, Ev("lookup", s.pos, id, {}, {}, FALSE)),
                             !.observed = IF id = 0 THEN @ ELSE @ \cup {id},
                             !.library_item =
                                IF id = 0 THEN NoneItem
                                ELSE AsItem(id, lib[s.media_type][id])]]
    /\ UNCHANGED <<lib, snapshot, npass, promoted, env, browsed, call>>

\* variant: only the playlist's name is looked up in the config value
SyncChildren_NameOnly(media_type, prov_item) ==
    \/ media_type = "album" /\ env.import_tracks
    \/ /\ media_type = "playlist"
       /\ NameOf(media_type, prov_item) \in env.playlist_tracks

\* sync_album_tracks (the album-tracks config value) / the playlist's name or
\* uri is in the playlist-tracks config value
SyncChildren(media_type, prov_item) ==
    \/ media_type = "album" /\ env.import_tracks
    \/ /\ media_type = "playlist"
       /\ \/ NameOf(media_type, prov_item) \in env.playlist_tracks
          \/ UriOf(media_type, prov_item) \in env.playlist_tracks

\* variant: the loop is left after the first item handled
AfterItem_ToCollector(s) == "cache_get"

\* where the loop body goes after cur_db_ids.add and the sleep(0)
AfterItem(s) ==
    IF SyncChildren(s.media_type, s.prov_item) THEN "child_fetch"
    ELSE IF s.media_type = "podcast" THEN "episodes"
    ELSE "iter"

StoreOps == {"add", "set_favorite", "update", "check_update"}

\* the table after the store call of a branch
ApplyBranch(tbl, branch, library_item, item) ==
    CASE branch = "add" -> AddItem(tbl, item)
      [] branch = "set_favorite" -> SetFavorite(tbl, library_item.item_id, TRUE)
      [] branch \in {"update", "check_update"} ->
            UpdateItem(tbl, library_item.item_id, item)
      [] OTHER -> tbl

\* the id the branch's store call is about
BranchId(tbl, branch, library_item, item) ==
    IF branch = "add" THEN AddedId(tbl, item) ELSE library_item.item_id

CallName(branch) == IF branch = "check_update" THEN "update" ELSE branch

\* the try block of the per-item loop body up to and including its store call
Merge(p) ==
    LET s == pass[p]
        mt == s.media_type
        branch == Branch(mt, s.inst, s.library_item, s.prov_item, s.import_as_favorite)
        item == ItemForBranch(branch, s.inst, s.prov_item, s.import_as_favorite)
        id == BranchId(lib[mt], branch, s.library_item, item)
        gone == branch \in {"update", "check_update"} /\ ~Exists(lib[mt], id)
        tbl == ApplyBranch(lib[mt], branch, s.library_item, item)
        after == IF branch \in {"add", "update", "check_update"}
                 THEN AsItem(id, tbl[id]) ELSE s.library_item
    IN
    /\ s.pc = "merge"
    /\ \E fault \in (IF branch \in StoreOps /\ ~gone THEN FaultChoices ELSE {FALSE}) :
         /\ faults' = Bump(fault)
         /\ promoted' =
              IF /\ ~fault
                 /\ s.import_as_favorite
                 /\ branch \in {"add", "set_favorite"}
                 /\ Exists(tbl, id) /\ tbl[id].favorite
                 /\ ~(Exists(lib[mt], id) /\ lib[mt][id].favorite)
              THEN promoted \cup {<<mt, id>>} ELSE promoted
         /\ IF branch = "skip"
            THEN /\ pass' = [pass EXCEPT ![p] = [s EXCEPT !.pc = "iter"]]
                 /\ lib' = lib
            ELSE IF branch = "raise" \/ gone \/ fault
            THEN /\ pass' = [pass EXCEPT ![p] =
                        [s EXCEPT !.pc = "iter", !.prov_item = item,
                                  !.raised = @ \cup {s.pos}]]
                 /\ lib' = lib
            ELSE /\ lib' = [lib EXCEPT ![mt] = tbl]
                 /\ pass' = [pass EXCEPT ![p] =
                        [s EXCEPT
                           !.prov_item = item,
                           !.library_item = after,
                           !.hit_add = @ \/ (branch = "add" /\ s.library_item.item_id # 0),
                           !.calls = IF branch \in StoreOps
                                     THEN @ \cup {<<CallName(branch), mt, id>>}
                                     ELSE @,
                           !.log = IF branch \in StoreOps
                                   THEN Append(@, Ev(CallName(branch), s.pos, id,
                                                     s.library_item.mappings,
                                                     tbl[id].mappings,
                                                     s.prov_item.favorite))
                                   ELSE @,
                           !.cur_db_ids =
                              IF mt = "audiobook" /\ ResumeChanged(after, item)
                              THEN @ ELSE @ \cup {id},
                           !.slept = ~(mt = "audiobook" /\ ResumeChanged(after, item)),
                           !.item_sleeps =
                              IF mt = "audiobook" /\ ResumeChanged(after, item)
                              THEN @ ELSE @ \cup {s.pos},
                           !.pc =
                              IF mt = "audiobook" /\ ResumeChanged(after, item)
                              THEN "resume" ELSE AfterItem(s)]]
    /\ UNCHANGED <<snapshot, npass, env, browsed, call>>

\* _sync_library_audiobooks, lines 861-875: the resume-state update
ResumeUpdate(p) ==
    LET s == pass[p]
        id == s.library_item.item_id
        gone == ~Exists(lib["audiobook"], id)
    IN
    /\ s.pc = "resume"
    /\ \E fault \in (IF gone THEN {FALSE} ELSE FaultChoices) :
         /\ faults' = Bump(fault)
         /\ IF gone \/ fault
            THEN /\ pass' = [pass EXCEPT ![p] =
                        [s EXCEPT !.pc = "iter", !.raised = @ \cup {s.pos}]]
                 /\ lib' = lib
            ELSE /\ lib' = [lib EXCEPT !["audiobook"] = UpdateItem(@, id, s.prov_item)]
                 /\ pass' = [pass EXCEPT ![p] =
                        [s EXCEPT !.pc = "iter", !.slept = TRUE,
                                  !.item_sleeps = @ \cup {s.pos},
                                  !.calls = @ \cup {<<"update", "audiobook", id>>},
                                  !.log = Append(@, Ev("update", s.pos, id, {}, {},
                                                       s.prov_item.favorite)),
                                  !.cur_db_ids = @ \cup {id}]]
    /\ UNCHANGED <<snapshot, npass, promoted, env, browsed, call>>

\* _sync_library_podcasts, lines 1035-1039: precache the podcast's episodes
Precache(p) ==
    LET s == pass[p] IN
    /\ s.pc = "episodes"
    /\ pass' = [pass EXCEPT ![p] = [s EXCEPT !.pc = "iter", !.slept = FALSE]]
    /\ UNCHANGED <<lib, snapshot, npass, faults, promoted, env, browsed, call>>

\* the page of child tracks a fetch returns: get_album_tracks returns them all,
\* get_playlist_tracks returns them on page 0 and nothing on later pages
ChildPage(inst, prov_item, page) ==
    IF page = 0 THEN ChildTracks(inst, prov_item) ELSE <<>>

\* for prov_track in await self.get_album_tracks(...) /
\* tracks = await self.get_playlist_tracks(..., page=page)
ChildFetch(p) ==
    LET s == pass[p]
        tracks == ChildPage(s.inst, s.prov_item, s.page)
    IN
    /\ s.pc = "child_fetch"
    /\ \E fault \in FaultChoices :
         /\ faults' = Bump(fault)
         /\ pass' = [pass EXCEPT ![p] =
              IF fault \/ Len(tracks) = 0
              THEN [s EXCEPT !.pc = "iter", !.children = <<>>, !.cpos = 0, !.page = 0,
                             !.slept = FALSE,
                             !.raised = IF fault THEN @ \cup {s.pos} ELSE @]
              ELSE [s EXCEPT !.pc = "child_lookup", !.children = tracks, !.cpos = 1,
                             !.slept = FALSE]]
    /\ UNCHANGED <<lib, snapshot, npass, promoted, env, browsed, call>>

\* library_track = await tracks.get_library_item_by_prov_mappings(...): outside
\* the inner try, inside the try of the album / playlist loop
ChildLookup(p) ==
    LET s == pass[p]
        id == LookupByMappings(lib["track"], s.children[s.cpos].maps)
    IN
    /\ s.pc = "child_lookup"
    /\ \E fault \in FaultChoices :
         /\ faults' = Bump(fault)
         /\ pass' = [pass EXCEPT ![p] =
              IF fault
              THEN [s EXCEPT !.pc = "iter", !.children = <<>>, !.cpos = 0, !.page = 0,
                             !.slept = FALSE,
                             !.raised = @ \cup {s.pos}]
              ELSE [s EXCEPT !.pc = "child_merge", !.slept = FALSE,
                             !.log = Append(@, Ev("child_lookup", s.pos, id, {}, {},
                                                  FALSE)),
                             !.library_item =
                                IF id = 0 THEN NoneItem
                                ELSE AsItem(id, lib["track"][id])]]
    /\ UNCHANGED <<lib, snapshot, npass, promoted, env, browsed, call>>

\* where the child loop goes after one track
AfterChild(s) ==
    IF s.cpos < Len(s.children)
    THEN [s EXCEPT !.pc = "child_lookup", !.cpos = s.cpos + 1]
    ELSE IF s.media_type = "playlist"
    THEN [s EXCEPT !.pc = "child_fetch", !.page = s.page + 1, !.children = <<>>,
                   !.cpos = 0]
    ELSE [s EXCEPT !.pc = "iter", !.children = <<>>, !.cpos = 0, !.page = 0]

\* the inner try of _sync_album_tracks / _sync_playlist_tracks
ChildMerge(p) ==
    LET s == pass[p]
        prov_track == s.children[s.cpos]
        branch == TrackBranch(s.inst, s.library_item, prov_track)
        item == ItemForBranch(branch, s.inst, prov_track, FALSE)
        id == BranchId(lib["track"], branch, s.library_item, item)
        gone == branch = "check_update" /\ ~Exists(lib["track"], id)
        tbl == ApplyBranch(lib["track"], branch, s.library_item, item)
    IN
    /\ s.pc = "child_merge"
    /\ \E fault \in (IF branch \in StoreOps /\ ~gone THEN FaultChoices ELSE {FALSE}) :
         /\ faults' = Bump(fault)
         /\ IF branch = "raise" \/ gone \/ fault \/ branch = "nothing"
            THEN /\ lib' = lib
                 /\ pass' = [pass EXCEPT ![p] =
                        [AfterChild(s) EXCEPT !.slept = (branch = "nothing")]]
            ELSE /\ lib' = [lib EXCEPT !["track"] = tbl]
                 /\ pass' = [pass EXCEPT ![p] =
                        [AfterChild(s) EXCEPT
                            !.slept = TRUE,
                            !.calls = @ \cup {<<CallName(branch), "track", id>>},
                            !.log = Append(@, Ev("child_" \o CallName(branch), s.pos,
                                                 id, {}, {}, FALSE))]]
    /\ UNCHANGED <<snapshot, npass, promoted, env, browsed, call>>

\* variant: the test "db_id not in cur_db_ids" is missing
\* variant: every row id that was not seen counts, cached or not
Orphans_Unseen(prev, cur_db_ids) ==
    IF prev.present THEN (1..(MaxCatalog + 1)) \ cur_db_ids ELSE {}

Orphans_Seen(prev, cur_db_ids) ==
    IF prev.present /\ prev.ids # {} THEN prev.ids \cap cur_db_ids ELSE {}

Orphans_All(prev, cur_db_ids) ==
    IF prev.present /\ prev.ids # {} THEN prev.ids ELSE {}

\* the ids the loop of lines 687-688 handles: those of the previous list that
\* are not in cur_db_ids (None and the empty list are both falsy)
Orphans(prev, cur_db_ids) ==
    IF prev.present /\ prev.ids # {} THEN prev.ids \ cur_db_ids ELSE {}

\* prev_library_items := await self.mass.cache.get(...): None and the empty
\* list both skip the loop; ids still in cur_db_ids are skipped by the loop
ReadSnapshot(p) ==
    LET s == pass[p]
        prev == snapshot[s.media_type][s.inst]
        todo == Orphans(prev, s.cur_db_ids)
    IN
    /\ s.pc = "cache_get"
    /\ pass' = [pass EXCEPT ![p] =
          [s EXCEPT !.prev = prev, !.todo = todo, !.snap_reads = @ + 1,
                    !.slept = FALSE,
                    !.log = Append(@, Ev("cache_get", 0, 0, {}, {}, FALSE)),
                    !.lib0 = lib[s.media_type], !.library_item = NoneItem,
                    !.pc = IF todo = {} THEN "persist" ELSE "orphan_get"]]
    /\ UNCHANGED <<lib, snapshot, npass, faults, promoted, env, browsed, call>>

\* the loop goes on with the ids left, then to the cache write
NextOrphan(s, id) ==
    [s EXCEPT !.todo = @ \ {id}, !.db_id = 0, !.library_item = NoneItem,
              !.slept = TRUE, !.orphan_sleeps = @ \cup {id},
              !.pc = IF s.todo \ {id} = {} THEN "persist" ELSE "orphan_get"]

\* variant: MediaNotFoundError is not expected
AlreadyRemoved_Never(tbl, id) == FALSE

\* except MediaNotFoundError: the item is already removed
AlreadyRemoved(tbl, id) == ~Exists(tbl, id)

\* library_item = await controller.get_library_item(db_id)
OrphanGet(p) ==
    LET s == pass[p]
        mt == s.media_type
    IN
    /\ s.pc = "orphan_get"
    /\ \E id \in s.todo, fault \in FaultChoices :
         /\ faults' = Bump(fault)
         /\ pass' = [pass EXCEPT ![p] =
              IF fault THEN [s EXCEPT !.pc = "failed", !.failed_in = "collector"]
              ELSE IF AlreadyRemoved(lib[mt], id)
              THEN [NextOrphan(s, id) EXCEPT
                       !.slept = FALSE, !.orphan_sleeps = s.orphan_sleeps,
                       !.log = Append(@, Ev("get", 0, id, {}, {}, FALSE))]
              ELSE [s EXCEPT !.pc = "orphan_resolve", !.db_id = id, !.slept = FALSE,
                             !.log = Append(@, Ev("get", 0, id, lib[mt][id].mappings, {},
                                                  FALSE)),
                             !.library_item = AsItem(id, lib[mt][id])]]
    /\ UNCHANGED <<lib, snapshot, npass, promoted, env, browsed, call>>

\* variant: demotion is chosen whatever the other providers' mappings say
OrphanPlan_AlwaysDemote(instance_id, library_item) == "demote"

\* variant: removal is chosen whatever the other providers' mappings say
OrphanPlan_AlwaysRemove(instance_id, library_item) == "remove"

\* if remaining_providers: ... else: ...
OrphanPlan(instance_id, library_item) ==
    IF RemainingProviders(instance_id, library_item) # {} THEN "demote" ELSE "remove"

\* variant: every removal is recursive
Recursive_Always(media_type) == TRUE

\* remove_item_from_library(db_id, recursive=media_type == MediaType.ALBUM)
Recursive(media_type) == media_type = "album"

RemoveFromLibrary(tables, media_type, id, recursive) ==
    IF recursive
    THEN [tables EXCEPT
            ![media_type] = RemoveItem(@, id),
            !["track"] = RemoveTracks(@, AlbumTrackIds(@, tables[media_type][id]))]
    ELSE [tables EXCEPT ![media_type] = RemoveItem(@, id)]

\* lines 694-715: demote when another provider still claims the item, else remove
OrphanResolve(p) ==
    LET s == pass[p]
        mt == s.media_type
        id == s.db_id
        plan == OrphanPlan(s.inst, s.library_item)
        flipped == Demoted(s.inst, s.library_item.mappings)
        gone == ~Exists(lib[mt], id)
    IN
    /\ s.pc = "orphan_resolve"
    /\ \E fault \in FaultChoices :
         /\ faults' = Bump(fault)
         /\ IF plan = "demote"
            THEN IF fault
                 THEN /\ pass' = [pass EXCEPT ![p] = [s EXCEPT !.pc = "failed", !.failed_in = "collector"]]
                      /\ lib' = lib
                 ELSE /\ lib' = [lib EXCEPT ![mt] = SetProviderMappings(@, id, flipped)]
                      /\ pass' = [pass EXCEPT ![p] =
                            [NextOrphan(s, id) EXCEPT
                               !.calls = @ \cup {<<"set_provider_mappings", mt, id>>},
                               !.log = Append(@, Ev("set_provider_mappings", 0, id, s.library_item.mappings,
                                                    flipped, FALSE))]]
            ELSE IF fault \/ gone
                 THEN /\ pass' = [pass EXCEPT ![p] =
                            [s EXCEPT !.pc = "orphan_fallback",
                                      !.removes = @ \cup {<<id, Recursive(mt)>>},
                                      !.calls = @ \cup {<<"remove", mt, id>>},
                               !.log = Append(@, Ev("remove", 0, id, s.library_item.mappings,
                                                    {}, FALSE))]]
                      /\ lib' = lib
                 ELSE /\ lib' = RemoveFromLibrary(lib, mt, id, Recursive(mt))
                      /\ pass' = [pass EXCEPT ![p] =
                            [NextOrphan(s, id) EXCEPT
                               !.removes = @ \cup {<<id, Recursive(mt)>>},
                               !.calls = @ \cup {<<"remove", mt, id>>},
                               !.log = Append(@, Ev("remove", 0, id, s.library_item.mappings,
                                                    {}, FALSE))]]
    /\ UNCHANGED <<snapshot, npass, promoted, env, browsed, call>>

\* lines 716-729, after remove raised: un-favorite (when the item read was a
\* favorite), otherwise straight to the mappings
OrphanFallback(p) ==
    LET s == pass[p]
        mt == s.media_type
        id == s.db_id
        flipped == Demoted(s.inst, s.library_item.mappings)
    IN
    /\ s.pc = "orphan_fallback"
    /\ \E fault \in FaultChoices :
         /\ faults' = Bump(fault)
         /\ IF fault
            THEN /\ pass' = [pass EXCEPT ![p] = [s EXCEPT !.pc = "failed", !.failed_in = "collector"]]
                 /\ lib' = lib
            ELSE IF s.library_item.favorite
            THEN /\ lib' = [lib EXCEPT ![mt] = SetFavorite(@, id, FALSE)]
                 /\ pass' = [pass EXCEPT ![p] =
                       [s EXCEPT !.pc = "orphan_demote",
                                 !.calls = @ \cup {<<"unfavorite", mt, id>>},
                               !.log = Append(@, Ev("unfavorite", 0, id, s.library_item.mappings,
                                                    {}, FALSE))]]
            ELSE /\ lib' = [lib EXCEPT ![mt] = SetProviderMappings(@, id, flipped)]
                 /\ pass' = [pass EXCEPT ![p] =
                       [NextOrphan(s, id) EXCEPT
                          !.calls = @ \cup {<<"set_provider_mappings", mt, id>>},
                               !.log = Append(@, Ev("set_provider_mappings", 0, id, s.library_item.mappings,
                                                    flipped, FALSE))]]
    /\ UNCHANGED <<snapshot, npass, promoted, env, browsed, call>>

\* lines 724-729: set_provider_mappings after the un-favorite
OrphanDemote(p) ==
    LET s == pass[p]
        mt == s.media_type
        id == s.db_id
        flipped == Demoted(s.inst, s.library_item.mappings)
    IN
    /\ s.pc = "orphan_demote"
    /\ \E fault \in FaultChoices :
         /\ faults' = Bump(fault)
         /\ IF fault
            THEN /\ pass' = [pass EXCEPT ![p] = [s EXCEPT !.pc = "failed", !.failed_in = "collector"]]
                 /\ lib' = lib
            ELSE /\ lib' = [lib EXCEPT ![mt] = SetProviderMappings(@, id, flipped)]
                 /\ pass' = [pass EXCEPT ![p] =
                       [NextOrphan(s, id) EXCEPT
                          !.calls = @ \cup {<<"set_provider_mappings", mt, id>>},
                               !.log = Append(@, Ev("set_provider_mappings", 0, id, s.library_item.mappings,
                                                    flipped, FALSE))]]
    /\ UNCHANGED <<snapshot, npass, promoted, env, browsed, call>>

\* variant: the new ids are added to the list read instead of replacing it
Persist_Union(p) ==
    LET s == pass[p] IN
    /\ s.pc = "persist"
    /\ snapshot' = [snapshot EXCEPT ![s.media_type][s.inst] =
                        [present |-> TRUE, ids |-> s.cur_db_ids \cup s.prev.ids]]
    /\ pass' = [pass EXCEPT ![p] =
          [s EXCEPT !.pc = "done", !.snap_writes = @ + 1, !.slept = FALSE,
                    !.log = Append(@, Ev("cache_set", 0, 0, {}, {}, FALSE))]]
    /\ UNCHANGED <<lib, npass, faults, promoted, env, browsed, call>>

\* await self.mass.cache.set(media_type.value, list(cur_db_ids), ...)
\* variant: the list is stored under the media type for every instance
Persist_AllInstances(p) ==
    LET s == pass[p] IN
    /\ s.pc = "persist"
    /\ snapshot' = [snapshot EXCEPT ![s.media_type] =
                        [i \in Instances |-> [present |-> TRUE, ids |-> s.cur_db_ids]]]
    /\ pass' = [pass EXCEPT ![p] =
          [s EXCEPT !.pc = "done", !.snap_writes = @ + 1, !.slept = FALSE,
                    !.log = Append(@, Ev("cache_set", 0, 0, {}, {}, FALSE))]]
    /\ UNCHANGED <<lib, npass, faults, promoted, env, browsed, call>>

Persist(p) ==
    LET s == pass[p] IN
    /\ s.pc = "persist"
    /\ snapshot' = [snapshot EXCEPT ![s.media_type][s.inst] =
                        [present |-> TRUE, ids |-> s.cur_db_ids]]
    /\ pass' = [pass EXCEPT ![p] =
          [s EXCEPT !.pc = "done", !.snap_writes = @ + 1, !.slept = FALSE,
                    !.log = Append(@, Ev("cache_set", 0, 0, {}, {}, FALSE))]]
    /\ UNCHANGED <<lib, npass, faults, promoted, env, browsed, call>>

Next ==
    \E p \in Slots :
        \/ RejectPass(p)
        \/ StartPass(p)
        \/ RepeatPass(p)
        \/ PullItem(p)
        \/ Lookup(p)
        \/ Merge(p)
        \/ ResumeUpdate(p)
        \/ Precache(p)
        \/ ChildFetch(p)
        \/ ChildLookup(p)
        \/ ChildMerge(p)
        \/ ReadSnapshot(p)
        \/ OrphanGet(p)
        \/ OrphanResolve(p)
        \/ OrphanFallback(p)
        \/ OrphanDemote(p)
        \/ Persist(p)

Spec == Init /\ [][Next]_vars

\* the runs of Spec for the media types of scopes
InitOf(scopes) == \E e \in Envs(FALSE) : e.scope \in scopes /\ InitFrom(e)

\* ------------------------------------------- rows removed between passes
\* a seeded library whose second row was removed from the store after the
\* last pass of its owners: the cached id lists still name it
InitRemoved ==
    \E e \in Envs(FALSE) :
        /\ e.owners # {}
        /\ env = e
        /\ lib = [t \in StoreTypes |->
                    IF t \in e.scope THEN SeedTable(e.owners) \o <<NoEntity>> ELSE <<>>]
        /\ snapshot = [t \in StoreTypes |-> [i \in Instances |->
                          IF t \in e.scope /\ i \in e.owners
                          THEN [present |-> TRUE, ids |-> {1, 2}] ELSE NoSnapshot]]
        /\ pass = [p \in Slots |-> IdlePass]
        /\ npass = 0
        /\ faults = 0
        /\ promoted = {}
        /\ browsed = ""
        /\ call = NoCall

\* those libraries, and the track runs of Spec
SpecRemoved == (InitOf({{"track"}}) \/ InitRemoved) /\ [][Next]_vars

\* ------------------------------------------------------ detailed catalogs
\* passes one after the other over the catalogs of env.detail, playlist
\* passes under every value of the playlist-tracks config entry, and album
\* passes that import the tracks of the albums
EnvsDetail ==
    {e \in [scope : {{t} : t \in {"track", "podcast", "album", "playlist",
                                   "audiobook"}},
            conc : {FALSE}, cancel : {FALSE},
            in_library_default : BOOLEAN, owners : SUBSET Instances,
            import_tracks : BOOLEAN,
            playlist_tracks : PlaylistConfs, detail : {TRUE}] :
        \E t \in e.scope :
            /\ e.owners \in SeedOwners(t)
            /\ e.import_tracks <=> t = "album"
            /\ e.playlist_tracks # {} => t = "playlist"}

InitDetail == \E e \in EnvsDetail : InitFrom(e)

SpecDetail == InitDetail /\ [][Next]_vars

\* ------------------------------------------------ passes repeated in a row
\* sync_library called again and again after a completed pass, same instance,
\* media type and import_as_favorite, the provider's catalog unchanged
RepeatAgain(p) ==
    LET s == pass[p] IN
    /\ s.pc = "done"
    /\ s.repeats < MaxRounds
    /\ \A q \in Slots \ {p} : pass[q].pc \in Terminal
    /\ pass' = [pass EXCEPT ![p] =
          [IdlePass EXCEPT !.pc = "iter", !.inst = s.inst, !.media_type = s.media_type,
                           !.import_as_favorite = s.import_as_favorite,
                           !.replay = TRUE, !.script = s.yields,
                           !.repeats = s.repeats + 1,
                           !.base = BaseOf(s.inst, s.media_type)]]
    /\ UNCHANGED <<lib, snapshot, npass, faults, promoted, env, browsed, call>>

\* one pass on any catalog and its repetitions; no store call raises
InitRounds ==
    \E e \in Envs(FALSE) :
        /\ env = e
        /\ lib = [t \in StoreTypes |-> IF t \in e.scope THEN SeedTable(e.owners) ELSE <<>>]
        /\ snapshot = [t \in StoreTypes |-> [i \in Instances |->
                          IF t \in e.scope THEN SeedSnapshot(e.owners, i) ELSE NoSnapshot]]
        /\ pass = [p \in Slots |-> IdlePass]
        /\ npass = MaxPasses - 1
        /\ faults = MaxFaults
        /\ promoted = {}
        /\ browsed = ""
        /\ call = NoCall

NextRounds ==
    \E p \in Slots :
        \/ StartPass(p)
        \/ RepeatAgain(p)
        \/ PullItem(p)
        \/ Lookup(p)
        \/ Merge(p)
        \/ ResumeUpdate(p)
        \/ Precache(p)
        \/ ChildFetch(p)
        \/ ChildLookup(p)
        \/ ChildMerge(p)
        \/ ReadSnapshot(p)
        \/ OrphanGet(p)
        \/ OrphanResolve(p)
        \/ Persist(p)

SpecRounds == InitRounds /\ [][NextRounds]_vars

\* Passes that overlap: an album pass that imports the album tracks and a
\* track pass, started in either slot at any time, on a library that is empty
\* at first; artist passes of both instances on a row they share; and the
\* runs of Spec, where the passes happen not to overlap
EnvsConc ==
    {[scope |-> {"album", "track"}, conc |-> TRUE, cancel |-> FALSE,
      in_library_default |-> d,
      owners |-> {}, import_tracks |-> TRUE, playlist_tracks |-> {},
      detail |-> FALSE] : d \in BOOLEAN}
    \cup
    \* artist passes of the two instances on a library where both own item "a"
    {[scope |-> {"artist"}, conc |-> TRUE, cancel |-> FALSE,
      in_library_default |-> d,
      owners |-> Instances, import_tracks |-> FALSE, playlist_tracks |-> {},
      detail |-> FALSE] : d \in BOOLEAN}

InitConc == \E e \in EnvsConc : InitFrom(e)

\* the overlapping passes, and the audiobook and podcast runs of Spec, where
\* the passes happen not to overlap
SpecConc == (InitOf({{"audiobook"}, {"podcast"}}) \/ InitConc) /\ [][Next]_vars

\* browse, lines 444-560: the subpaths that list library items, and the media
\* type whose cache entry each reads
Subpaths ==
    {"artists", "albums", "tracks", "radios", "playlists", "audiobooks", "podcasts"}

SubpathKey(subpath) ==
    CASE subpath = "artists" -> "artist"
      [] subpath = "albums" -> "album"
      [] subpath = "tracks" -> "track"
      [] subpath = "radios" -> "radio"
      [] subpath = "playlists" -> "playlist"
      [] subpath = "audiobooks" -> "audiobook"
      [] subpath = "podcasts" -> "podcast"

\* one call of browse: it raises without the BROWSE feature, else reads the
\* cache entry of the instance and lists the provider's catalog when the entry
\* is missing or empty, the library rows of the cached ids otherwise
Browse(inst, subpath) ==
    /\ browsed = ""
    /\ SubpathKey(subpath) \in env.scope
    /\ browsed' =
          IF BrowseFeature \notin supported_features(inst) THEN "NotImplementedError"
          ELSE LET library_item_ids == snapshot[SubpathKey(subpath)][inst] IN
               IF ~library_item_ids.present \/ library_item_ids.ids = {}
               THEN "get_library_items"
               ELSE "library_items"
    /\ UNCHANGED <<lib, snapshot, pass, npass, faults, promoted, env, call>>

\* one call of browse for the media type of the run, at any time while passes
\* run
NextBrowse ==
    \/ Next
    \/ \E inst \in Instances, subpath \in Subpaths : Browse(inst, subpath)

\* browse is followed on libraries that earlier passes filled, where the cache
\* holds an entry to list, for mappings that default to in_library
InitBrowse ==
    \E e \in Envs(FALSE) : e.owners # {} /\ e.in_library_default /\ InitFrom(e)

SpecBrowse == InitBrowse /\ [][NextBrowse]_vars

\* the task running sync_library is cancelled while it is suspended at one of
\* the asyncio.sleep(0) of the reconciler loops or of the collector loop:
\* CancelledError is no Exception, no handler of the pass catches it, and the
\* pass ends there
Cancel(p) ==
    LET s == pass[p] IN
    /\ env.cancel
    /\ s.pc \notin Terminal
    /\ s.slept
    /\ ~s.retry
    /\ pass' = [pass EXCEPT ![p] = [s EXCEPT !.pc = "cancelled"]]
    \* the pass started again is the last pass of the run
    /\ npass' = MaxPasses
    /\ UNCHANGED <<lib, snapshot, faults, promoted, env, browsed, call>>

\* sync_library called again after the cancelled pass, same instance, media
\* type and import_as_favorite, the provider's catalog unchanged: the iterator
\* yields again what it had yielded, then the rest of the catalog
RetryPass(p) ==
    LET s == pass[p] IN
    /\ s.pc = "cancelled"
    /\ \A q \in Slots \ {p} : pass[q].pc \in Terminal
    /\ pass' = [pass EXCEPT ![p] =
          [IdlePass EXCEPT !.pc = "iter", !.inst = s.inst, !.media_type = s.media_type,
                           !.import_as_favorite = s.import_as_favorite,
                           !.replay = TRUE, !.script = s.yields,
                           !.repeats = MaxRepeats,
                           !.retry = TRUE, !.origin = s.base,
                           !.base = BaseOf(s.inst, s.media_type)]]
    /\ UNCHANGED <<lib, snapshot, npass, faults, promoted, env, browsed, call>>

NextCancel ==
    \/ Next
    \/ \E p \in Slots : Cancel(p) \/ RetryPass(p)

\* Passes one after the other, any of them cancelled at a checkpoint and
\* started again (these runs are explored without store errors and for
\* mappings that default to in_library); and the radio runs of Spec, where no
\* pass is cancelled
EnvsCancel ==
    {[e EXCEPT !.cancel = TRUE] : e \in {f \in Envs(FALSE) : f.in_library_default}}

InitCancel == \E e \in EnvsCancel : InitFrom(e)

SpecCancel == (InitOf({{"radio"}}) \/ InitCancel) /\ [][NextCancel]_vars

\* ------------------------------------------------- the capability methods
\* the feature tokens a provider can declare, and the feature sets the calls
\* are followed with: every set of at most MaxFeatures tokens
FeatureTokens ==
    {LibraryFeature(t) : t \in MediaTypes \ {"podcast_episode"}}
        \cup {LibraryEditFeature(t) : t \in MediaTypes \ {"podcast_episode"}}
        \cup {BrowseFeature}

FeatureSets == {f \in SUBSET FeatureTokens : Cardinality(f) <= MaxFeatures}

\* a provider constructed with a declared feature set, on any library of Init
InitCapability ==
    \E e \in Envs(FALSE), f \in FeatureSets :
        /\ InitLibrary(e)
        /\ call = [fn |-> "__init__", features |-> f, media_type |-> "",
                   result |-> FALSE]

CallLibrarySupported(media_type) ==
    /\ call' = [call EXCEPT !.fn = "library_supported", !.media_type = media_type,
                            !.result = library_supported_of(call.features, media_type)]
    /\ UNCHANGED <<lib, snapshot, pass, npass, faults, promoted, env, browsed>>

CallLibraryEditSupported(media_type) ==
    /\ call' = [call EXCEPT !.fn = "library_edit_supported", !.media_type = media_type,
                            !.result = library_edit_supported(call.features, media_type)]
    /\ UNCHANGED <<lib, snapshot, pass, npass, faults, promoted, env, browsed>>

NextCapability ==
    \E media_type \in MediaTypes :
        \/ CallLibrarySupported(media_type)
        \/ CallLibraryEditSupported(media_type)

SpecCapability == InitCapability /\ [][NextCapability]_vars

\* ------------------------------------------------------------- lookup_key
\* provider classes: the base class and the Plex provider, which overrides
\* is_streaming_provider
ProviderClasses == {"MusicProvider", "PlexProvider"}
Domains == {"plex", "builtin"}

\* MusicProvider.is_streaming_provider / PlexProvider.is_streaming_provider
is_streaming_provider(cls) == IF cls = "PlexProvider" THEN FALSE ELSE TRUE

\* variant: only a streaming provider is looked up by its domain
lookup_key_Streaming(cls, multi_instance, domain, instance_id) ==
    IF is_streaming_provider(cls) THEN domain ELSE instance_id

\* MusicProvider.lookup_key
lookup_key(cls, multi_instance, domain, instance_id) ==
    IF is_streaming_provider(cls) \/ ~multi_instance THEN domain ELSE instance_id

\* a provider of either class, with either manifest.multi_instance, a domain
\* and an instance id, on any library of Init
InitLookupKey ==
    \E e \in Envs(FALSE), cls \in ProviderClasses, multi_instance \in BOOLEAN,
       domain \in Domains, instance_id \in Instances :
        /\ InitLibrary(e)
        /\ call = [fn |-> "__init__", cls |-> cls, multi_instance |-> multi_instance,
                   domain |-> domain, instance_id |-> instance_id, result |-> ""]

CallLookupKey ==
    /\ call' = [call EXCEPT !.fn = "lookup_key",
                            !.result = lookup_key(call.cls, call.multi_instance,
                                                  call.domain, call.instance_id)]
    /\ UNCHANGED <<lib, snapshot, pass, npass, faults, promoted, env, browsed>>

SpecLookupKey == InitLookupKey /\ [][CallLookupKey]_vars

\* ----------------------------------------------- _check_provider_mappings
\* the provider mappings a library item can hold: at most two, no two for the
\* same (provider instance, item id)
StoredMappings ==
    LET all == {Mapping(i, x, l, a) : i \in Instances, x \in ItemIds,
                                      l \in BOOLEAN, a \in BOOLEAN}
    IN {ms \in SUBSET all :
           /\ Cardinality(ms) <= 2
           /\ \A m, n \in ms : (m.inst = n.inst /\ m.item = n.item) => m = n}

\* the observed items: well-formed, without a mapping, or corrupt
ObservedItems ==
    {ProvItem("P1", i, av, 0, NoResume) : i \in ItemIds, av \in BOOLEAN}
        \cup {[ProvItem("P1", "a", TRUE, 0, NoResume) EXCEPT !.maps = <<>>]}
        \cup CorruptItems("P1", "artist")

\* a library item and an observed item before the check is called
InitCheckMappings ==
    /\ \E e \in Envs(FALSE) : e.scope = {"artist"} /\ InitLibrary(e)
    /\ \E ms \in StoredMappings, item \in ObservedItems, in_library \in BOOLEAN :
         call = [fn |-> "__init__", instance_id |-> "P1",
                 library_item |-> [item_id |-> 1, favorite |-> FALSE, mappings |-> ms,
                                   cache_checksum |-> 0, resume |-> NoResume],
                 provider_item |-> item, in_library |-> in_library,
                 result |-> ""]

\* self._check_provider_mappings(library_item, provider_item, in_library): the
\* only assignment is to the observed item's mapping
CallCheckProviderMappings ==
    /\ call.fn = "__init__"
    /\ call' = [call EXCEPT
                  !.fn = "_check_provider_mappings",
                  !.provider_item = MarkInLibrary(call.instance_id, @, call.in_library),
                  !.result = _check_provider_mappings(call.instance_id,
                                 call.library_item, call.provider_item,
                                 call.in_library)]
    /\ UNCHANGED <<lib, snapshot, pass, npass, faults, promoted, env, browsed>>

SpecCheckMappings == InitCheckMappings /\ [][CallCheckProviderMappings]_vars

\* --------------------------------------------------- iter_playlist_tracks
\* what a page of a playlist can hold
PageChoices == {<<>>, <<"a">>, <<"b", "a">>}

\* the answers of a provider other than Plex: the pages it lists, and what it
\* answers for a page after them, nothing or its last page again
ListedPages == UNION {[1..n -> PageChoices] : n \in 0..MaxListed}

RECURSIVE Concat(_)
Concat(pages) == IF pages = <<>> THEN <<>> ELSE Head(pages) \o Concat(Tail(pages))

\* variant: Plex answers every page with the whole list
plex_get_playlist_tracks_AnyPage(playlist, page) == playlist

\* PlexProvider.get_playlist_tracks: the whole list on page 0, nothing after
plex_get_playlist_tracks(playlist, page) ==
    IF page > 0 THEN <<>> ELSE playlist

\* self.get_playlist_tracks(prov_playlist_id, page=page) of the provider
get_playlist_tracks(g, page) ==
    IF g.provider = "PlexProvider" THEN plex_get_playlist_tracks(g.playlist, page)
    ELSE IF page < Len(g.pages) THEN g.pages[page + 1]
    ELSE IF g.tail = "repeat" /\ Len(g.pages) > 0 THEN g.pages[Len(g.pages)]
    ELSE <<>>

NewGenerator ==
    [fn |-> "iter_playlist_tracks", provider |-> "PlexProvider", playlist |-> <<>>,
     pages |-> <<>>, tail |-> "empty",
     pc |-> "request", page |-> 0, tracks |-> <<>>, idx |-> 0,
     \* history: the pages requested and the tracks yielded, in order
     requested |-> <<>>, yielded |-> <<>>]

\* the generator before its first pull, for a Plex playlist or for another
\* provider's pages, on a playlist library of Init
InitPlaylistTracks ==
    /\ \E e \in Envs(FALSE) : e.scope = {"playlist"} /\ InitLibrary(e)
    /\ \/ \E playlist \in PageChoices :
             call = [NewGenerator EXCEPT !.playlist = playlist]
       \/ \E pages \in ListedPages, tail \in {"empty", "repeat"} :
             call = [NewGenerator EXCEPT !.provider = "other", !.pages = pages,
                                         !.tail = tail]

\* tracks = await self.get_playlist_tracks(...); if not tracks: break
\* (a source error of the provider leaves the generator)
RequestPage ==
    /\ call.pc = "request"
    /\ call.page < MaxPages
    /\ \E fails \in BOOLEAN :
         LET tracks == get_playlist_tracks(call, call.page) IN
         call' = IF fails THEN [call EXCEPT !.pc = "raised"]
                 ELSE [call EXCEPT !.requested = Append(@, call.page),
                                   !.tracks = tracks, !.idx = 0,
                                   !.pc = IF tracks = <<>> THEN "done" ELSE "yield"]
    /\ UNCHANGED <<lib, snapshot, pass, npass, faults, promoted, env, browsed>>

\* for track in tracks: yield track; then page += 1
YieldTrack ==
    /\ call.pc = "yield"
    /\ call' = [call EXCEPT !.yielded = Append(@, call.tracks[call.idx + 1]),
                            !.idx = call.idx + 1,
                            !.page = IF call.idx + 1 = Len(call.tracks)
                                     THEN call.page + 1 ELSE @,
                            !.pc = IF call.idx + 1 = Len(call.tracks)
                                   THEN "request" ELSE "yield"]
    /\ UNCHANGED <<lib, snapshot, pass, npass, faults, promoted, env, browsed>>

NextPlaylistTracks == RequestPage \/ YieldTrack

\* the consumer's async for pulls until the generator ends
SpecPlaylistTracks ==
    InitPlaylistTracks /\ [][NextPlaylistTracks]_vars /\ WF_vars(NextPlaylistTracks)

\* ------------------------------------------------------------- properties
\* the orphans of a pass: ids of the list it read that it did not put in
\* cur_db_ids, as rows of the table the collector started from
OrphanIdsOf(s) == {id \in s.prev.ids \ s.cur_db_ids : Exists(s.lib0, id)}

\* another provider instance still has the row in its library
SharedRow(s, id) == \E m \in s.lib0[id].mappings : m.inst # s.inst /\ m.in_library

\* every mapping of the pass's instance on the row is out of the library
DemotedRow(s, id) ==
    \A m \in lib[s.media_type][id].mappings : m.inst = s.inst => ~m.in_library

\* C1: after a completed pass, a row that was in the previous id list, was not
\* observed, and that another instance still has in its library, still exists,
\* was never handed to remove_item_from_library, and has all mappings of the
\* pass's instance at in_library = false.
C1_SharedOrphanDemoted ==
    \A p \in Slots :
        LET s == pass[p] IN
        s.pc = "done" =>
            \A id \in OrphanIdsOf(s) :
                SharedRow(s, id) =>
                    /\ Exists(lib[s.media_type], id)
                    /\ <<"remove", s.media_type, id>> \notin s.calls
                    /\ DemotedRow(s, id)

C1_Witness ==
    \E p \in Slots :
        LET s == pass[p] IN
        /\ s.pc = "done"
        /\ \E id \in OrphanIdsOf(s) :
              /\ SharedRow(s, id)
              /\ \E m \in s.lib0[id].mappings : m.inst = s.inst /\ m.in_library
              /\ <<"set_provider_mappings", s.media_type, id>> \in s.calls

\* C2: after a completed pass, a row that was in the previous id list, was not
\* observed, and that no other instance has in its library, is gone; or, when
\* its removal raised, it exists with favorite = false and the mappings of the
\* pass's instance at in_library = false. Its id is not in the list written.
C2_SoleOrphanRemoved ==
    \A p \in Slots :
        LET s == pass[p]
            mt == s.media_type
        IN
        s.pc = "done" =>
            \A id \in OrphanIdsOf(s) :
                ~SharedRow(s, id) =>
                    /\ \/ ~Exists(lib[mt], id)
                       \/ /\ <<"remove", mt, id>> \in s.calls
                          /\ ~lib[mt][id].favorite
                          /\ DemotedRow(s, id)
                    /\ snapshot[mt][s.inst].present
                    /\ id \notin snapshot[mt][s.inst].ids

\* the removal raised and the row was a favorite in the library of the instance
C2_Witness ==
    \E p \in Slots :
        LET s == pass[p]
            mt == s.media_type
        IN
        /\ s.pc = "done"
        /\ \E id \in OrphanIdsOf(s) :
              /\ ~SharedRow(s, id)
              /\ s.lib0[id].favorite
              /\ Exists(lib[mt], id)
              /\ <<"unfavorite", mt, id>> \in s.calls
              /\ <<"set_provider_mappings", mt, id>> \in s.calls

\* the store calls only the Orphan Collector makes
CollectorOps == {"remove", "unfavorite", "set_provider_mappings"}

\* C3: a row that the lookup returned for an item the iterator yielded in a
\* pass is not removed, demoted or un-favorited by the collector of that pass,
\* whatever happened to the item afterwards in the pass.
C3_ObservedNeverCollected ==
    \A p \in Slots :
        LET s == pass[p] IN
        \A id \in s.observed, op \in CollectorOps :
            <<op, s.media_type, id>> \notin s.calls

\* two rows of a table never carry the same (instance, item id)
NoDuplicateMapping(tbl) ==
    \A i, j \in 1..Len(tbl) :
        (i < j /\ tbl[i].exists /\ tbl[j].exists) =>
            \A m \in tbl[i].mappings, n \in tbl[j].mappings : ~SameKey(m, n)

\* C4: no two rows of one media type carry a mapping with the same (instance,
\* item id), catalogs that yield an item twice included, and add_item_to_library
\* is only called for an item whose lookup in the same iteration found nothing.
C4_NoDuplicateEntity ==
    /\ \A mt \in StoreTypes : NoDuplicateMapping(lib[mt])
    /\ \A p \in Slots : ~pass[p].hit_add

\* a completed pass whose catalog yielded one item twice and that added it
C4_Witness ==
    \E p \in Slots :
        LET s == pass[p] IN
        /\ s.pc = "done"
        /\ Len(s.yields) = 2
        /\ s.yields[1].item_id = s.yields[2].item_id
        /\ \E c \in s.calls : c[1] = "add" /\ c[3] \in s.cur_db_ids

\* C5: when an album pass that imports the album tracks (or a playlist pass)
\* and a track pass of the same instance interleave at their suspension
\* points, no source track ends up on two rows of the track table.
C5_NoDuplicateTrack == NoDuplicateMapping(lib["track"])

\* C6: a pass repeated with the same instance, media type and
\* import_as_favorite on an unchanged catalog makes no store call that changes
\* the library and writes the id list it read; stated for the runs in which no
\* store call raised and the provider's mappings arrive with in_library set.
C6_RepeatedPassIdle ==
    \A p \in Slots :
        LET s == pass[p] IN
        (s.replay /\ s.pc = "done" /\ faults = 0 /\ env.in_library_default) =>
            /\ s.calls = {}
            /\ s.prev.present
            /\ s.prev.ids = s.cur_db_ids

\* a step that lowers the favorite flag of a row that a pass with
\* import_as_favorite had made a favorite
Unfavors(mt, id) ==
    /\ <<mt, id>> \in promoted
    /\ lib[mt][id].exists /\ lib[mt][id].favorite
    /\ lib'[mt][id].exists /\ ~lib'[mt][id].favorite

\* C7 as stated: once a pass with import_as_favorite = true has made a row a
\* favorite, no pass with import_as_favorite = false sets its favorite flag
\* back to false, whatever its catalog holds.
C7_FavoriteNeverCleared ==
    [][\A mt \in StoreTypes : \A id \in 1..Len(lib[mt]) :
          Unfavors(mt, id) =>
              \A p \in Slots : pass[p].pc \notin Terminal => pass[p].import_as_favorite]_vars

\* C7, amended: once a pass with import_as_favorite = true has made a row a
\* favorite, its favorite flag is set back to false only by the Orphan
\* Collector of a pass for which the row is an orphan (id in the list read,
\* not in cur_db_ids) and whose remove_item_from_library call for it raised;
\* no pass clears the flag of a row it put in cur_db_ids.
C7_FavoriteClearedOnlyForOrphan ==
    [][\A mt \in StoreTypes : \A id \in 1..Len(lib[mt]) :
          Unfavors(mt, id) =>
              \E p \in Slots :
                  /\ pass[p].pc = "orphan_fallback"
                  /\ pass[p].media_type = mt
                  /\ pass[p].db_id = id
                  /\ id \in pass[p].prev.ids \ pass[p].cur_db_ids
                  /\ <<"remove", mt, id>> \in pass[p].calls]_vars

\* a pass with import_as_favorite = false un-favorited a row an earlier pass
\* had made a favorite
C7_Witness ==
    \E p \in Slots :
        LET s == pass[p] IN
        /\ ~s.import_as_favorite
        /\ \E id \in s.prev.ids \ s.cur_db_ids :
              /\ <<s.media_type, id>> \in promoted
              /\ <<"unfavorite", s.media_type, id>> \in s.calls
              /\ ~lib[s.media_type][id].favorite

\* C8: a store call for one item that raises (its lookup, add, set_favorite,
\* update or consistency check) does not end the pass: the pass only ends
\* early through its iterator or its collector.
C8_ItemErrorIsolated ==
    \A p \in Slots :
        LET s == pass[p] IN
        (s.pc = "failed" /\ s.raised # {}) => s.failed_in \in {"iterator", "collector"}

\* C9: a pass for a media type the provider does not declare (the podcast
\* episode type included) is rejected before the iterator is pulled and before
\* any store call, cache read or cache write, and leaves library and cache as
\* they were.
C9_UnsupportedRejected ==
    /\ [](\A p \in Slots :
            LET s == pass[p] IN
            (s.pc # "idle" /\ LibraryFeature(s.media_type) \notin supported_features(s.inst))
                => /\ s.pc = "rejected"
                   /\ s.yields = <<>> /\ s.pos = 0
                   /\ s.looked = {} /\ s.calls = {}
                   /\ s.snap_reads = 0 /\ s.snap_writes = 0)
    /\ [][(npass' = npass + 1 /\ \E p \in Slots : pass'[p].pc = "rejected")
             => (lib' = lib /\ snapshot' = snapshot)]_vars

\* a rejected podcast episode pass of the instance that declares every
\* library feature
C9_Witness ==
    \E p \in Slots :
        /\ pass[p].pc = "rejected"
        /\ pass[p].media_type = "podcast_episode"
        /\ pass[p].inst = "P1"

\* C10: an error raised by a store call of the Orphan Collector for one orphan
\* (get_library_item other than not-found, remove, set_favorite,
\* set_provider_mappings) does not end the pass.
C10_CollectorErrorAbsorbed ==
    \A p \in Slots : pass[p].failed_in # "collector"

\* C11: a sync_library call whose capability check passed never ends with an
\* error; stated for the case the claim singles out: no store call raised and
\* the catalog iterator had yielded items before it failed.
C11_NoThirdOutcome ==
    \A p \in Slots :
        LET s == pass[p] IN
        (faults = 0 /\ Len(s.yields) > 0) => s.pc # "failed"

\* the mappings of a set that belong to / do not belong to an instance
OwnMappings(inst, mappings) == {m \in mappings : m.inst = inst}
ForeignMappings(inst, mappings) == {m \in mappings : m.inst # inst}

\* C13: every set_provider_mappings call of a pass hands over, for the
\* mappings of other instances, exactly what the pass's get_library_item
\* returned for the row, and for the mappings of its own instance those it
\* read with in_library set to false and nothing else changed.
C13_MappingsConfined ==
    \A p \in Slots :
        LET s == pass[p] IN
        \A k \in 1..Len(s.log) :
            LET e == s.log[k] IN
            e.op = "set_provider_mappings" =>
                /\ \E j \in 1..(k - 1) :
                      /\ s.log[j].op = "get"
                      /\ s.log[j].id = e.id
                      /\ s.log[j].read = e.read
                /\ ForeignMappings(s.inst, e.written) = ForeignMappings(s.inst, e.read)
                /\ OwnMappings(s.inst, e.written) =
                      {[m EXCEPT !.in_library = FALSE] : m \in OwnMappings(s.inst, e.read)}

\* a completed pass demoted a row that another instance has in its library
C13_Witness ==
    \E p \in Slots :
        LET s == pass[p] IN
        /\ s.pc = "done"
        /\ \E k \in 1..Len(s.log) :
              /\ s.log[k].op = "set_provider_mappings"
              /\ \E m \in s.log[k].read : m.inst # s.inst /\ m.in_library
              /\ \E m \in s.log[k].read : m.inst = s.inst /\ m.in_library
              /\ lib[s.media_type][s.log[k].id].mappings = s.log[k].written

\* the remove_item_from_library calls a pass has made, raised ones included
RemoveCalls(s) == {k \in 1..Len(s.log) : s.log[k].op = "remove"}

\* C15 as stated: removal of a row is requested only when no mapping of the
\* row has in_library = true.
C15_RemovedOnlyWithoutLibraryMapping ==
    \A p \in Slots :
        \A k \in RemoveCalls(pass[p]) :
            \A m \in pass[p].log[k].read : ~m.in_library

\* C15, amended: removal of a row is requested only when no mapping of
\* another provider instance on the row, as get_library_item returned it to
\* the pass, has in_library = true; the mappings of the pass's own instance
\* are not consulted and may still be in_library.
C15_RemovedOnlyWithoutForeignLibraryMapping ==
    \A p \in Slots :
        LET s == pass[p] IN
        \A k \in RemoveCalls(s) :
            /\ \E j \in 1..(k - 1) :
                  /\ s.log[j].op = "get"
                  /\ s.log[j].id = s.log[k].id
                  /\ s.log[j].read = s.log[k].read
            /\ \A m \in ForeignMappings(s.inst, s.log[k].read) : ~m.in_library

\* a row was removed while the mapping of the pass's instance was in_library
\* and a mapping of another instance, out of the library, was on it
C15_Witness ==
    \E p \in Slots :
        LET s == pass[p] IN
        \E k \in RemoveCalls(s) :
            /\ \E m \in OwnMappings(s.inst, s.log[k].read) : m.in_library
            /\ ForeignMappings(s.inst, s.log[k].read) # {}
            /\ ~Exists(lib[s.media_type], s.log[k].id)

\* the rows the lookups of a pass returned and the rows its adds created
FoundIds(s) == {s.log[k].id : k \in {j \in 1..Len(s.log) :
                                        s.log[j].op = "lookup" /\ s.log[j].id # 0}}
CreatedIds(s) == {s.log[k].id : k \in {j \in 1..Len(s.log) : s.log[j].op = "add"}}

\* C16: after a completed pass in which no item raised, the cache entry of the
\* pass's instance and media type is exactly the set of ids of the rows found
\* or created for the items yielded, whatever the entry held before.
C16_SnapshotIsSeen ==
    \A p \in Slots :
        LET s == pass[p] IN
        (s.pc = "done" /\ s.raised = {}) =>
            snapshot[s.media_type][s.inst] =
                [present |-> TRUE, ids |-> FoundIds(s) \cup CreatedIds(s)]

\* the pass created a row, found another, and dropped an id of the list read
C16_Witness ==
    \E p \in Slots :
        LET s == pass[p] IN
        /\ s.pc = "done" /\ s.raised = {}
        /\ CreatedIds(s) # {}
        /\ s.prev.present
        /\ s.prev.ids \ snapshot[s.media_type][s.inst].ids # {}

\* an item whose mapping names another item id or another provider instance
Corrupt(inst, item) ==
    \E k \in 1..Len(item.maps) :
        item.maps[k].item # item.item_id \/ item.maps[k].inst # inst

\* the pass is through with the item it pulled at position q
Processed(s, q) == q < s.pos \/ (q = s.pos /\ s.pc \notin {"lookup", "merge"})

\* C18: for every corrupt item a catalog yields, the consistency check raises,
\* no add, set_favorite or update is made for it, and its row is not put in
\* cur_db_ids by it.
C18_CorruptItemSkipped ==
    \A p \in Slots :
        LET s == pass[p] IN
        \A q \in 1..Len(s.yields) :
            (Corrupt(s.inst, s.yields[q]) /\ Processed(s, q)) =>
                /\ q \in s.raised
                /\ \A k \in 1..Len(s.log) :
                      s.log[k].pos = q =>
                          s.log[k].op \notin {"add", "set_favorite", "update"}

\* C19: within a pass the store calls come item by item in the order of the
\* yields: the lookup of an item is the first call made for it and follows
\* every call made for the items before it, and the collector's calls (cache
\* read included) come after the iterator is exhausted, after which no call
\* for an item is made.
C19_OneItemAtATime ==
    \A p \in Slots :
        LET s == pass[p] IN
        \A j \in 1..Len(s.log) :
            LET e == s.log[j] IN
            /\ e.pos <= Len(s.yields)
            /\ e.pos > 0 =>
                  /\ \A i \in 1..(j - 1) :
                        /\ s.log[i].pos <= e.pos
                        /\ s.log[i].op # "end"
                        /\ e.op = "lookup" => s.log[i].pos < e.pos
                  /\ e.op # "lookup" =>
                        \E i \in 1..(j - 1) : s.log[i].op = "lookup" /\ s.log[i].pos = e.pos
            /\ (e.pos = 0 /\ e.op # "end") =>
                  \E i \in 1..(j - 1) : s.log[i].op = "end"

\* a completed pass that changed the library for two items and then handled
\* an orphan
C19_Witness ==
    \E p \in Slots :
        LET s == pass[p] IN
        /\ s.pc = "done"
        /\ \A q \in {1, 2} : \E k \in 1..Len(s.log) :
              s.log[k].pos = q /\ s.log[k].op \in {"add", "set_favorite", "update"}
        /\ \E k \in 1..Len(s.log) : s.log[k].op \in {"remove", "set_provider_mappings"}

\* the add calls of a pass that made a new row (not a merge into a row of
\* another provider): the row's id is beyond the table the pass started from
NewRows(s) ==
    {k \in 1..Len(s.log) :
        s.log[k].op = "add" /\ s.log[k].id > Len(s.base.tables[s.media_type])}

\* a completed pass, no item raising, on a library with no row of its type
AllNew(s) ==
    s.pc = "done" /\ s.raised = {} /\ Len(s.base.tables[s.media_type]) = 0

\* C17 as stated: in a pass over items that have no row, one row is created
\* per item yielded; none of the rows created is a favorite when
\* import_as_favorite is false, every one is when it is true.
C17_CreatedFavoriteIffImport ==
    \A p \in Slots :
        LET s == pass[p] IN
        /\ \A k \in NewRows(s) :
              lib[s.media_type][s.log[k].id].favorite = s.import_as_favorite
        /\ AllNew(s) =>
              Cardinality(NewRows(s)) =
                  Cardinality({s.yields[q].item_id : q \in 1..Len(s.yields)})

\* C17, amended: a row created by a pass is a favorite exactly when
\* import_as_favorite is true or the catalog yielded the item already flagged
\* favorite; in a pass over items that have no row one row is created per
\* distinct item its provider mappings name (the key of the lookup), except
\* that a track never yielded as available gets none.
C17_CreatedFavoriteIffImportOrFlagged ==
    \A p \in Slots :
        LET s == pass[p] IN
        /\ \A k \in NewRows(s) :
              lib[s.media_type][s.log[k].id].favorite =
                  (s.import_as_favorite \/ s.log[k].fav)
        /\ AllNew(s) =>
              Cardinality(NewRows(s)) =
                  Cardinality({s.yields[q].maps[1].item :
                                  q \in {r \in 1..Len(s.yields) :
                                            \/ s.media_type # "track"
                                            \/ ItemAvailable(RangeOf(s.yields[r].maps))}})

\* a pass with import_as_favorite = false created a favorite row and a row
\* that is not a favorite
C17_Witness ==
    \E p \in Slots :
        LET s == pass[p] IN
        /\ AllNew(s) /\ ~s.import_as_favorite
        /\ \E k \in NewRows(s) : lib[s.media_type][s.log[k].id].favorite
        /\ \E k \in NewRows(s) : ~lib[s.media_type][s.log[k].id].favorite

\* calls of a pass that read, and the mark of the iterator's end
ReadingOps == {"end", "lookup", "child_lookup", "cache_get", "get", "cache_set"}

\* positions of the log of a pass holding a call of one of the names
At(s, ops) == {k \in 1..Len(s.log) : s.log[k].op \in ops}

\* a pass that completed read its cache entry once and wrote it once, the
\* write being its last call
OnceEach(s) ==
    /\ Cardinality(At(s, {"cache_get"})) <= 1
    /\ Cardinality(At(s, {"cache_set"})) <= 1
    /\ At(s, {"cache_set"}) # {} <=> s.pc = "done"
    /\ \A k \in At(s, {"cache_set"}) : k = Len(s.log) /\ At(s, {"cache_get"}) # {}

\* no step changes a cache entry but the last step of a pass of the entry's
\* instance and media type, which stores its cur_db_ids; browse changes
\* neither the cache nor the library nor a pass
SnapshotFrame ==
    /\ \A t \in StoreTypes, i \in Instances :
          snapshot'[t][i] # snapshot[t][i] =>
              \E p \in Slots :
                  /\ pass[p].pc = "persist" /\ pass'[p].pc = "done"
                  /\ pass[p].media_type = t /\ pass[p].inst = i
                  /\ snapshot'[t][i] = [present |-> TRUE, ids |-> pass[p].cur_db_ids]
    /\ browsed' # browsed => (snapshot' = snapshot /\ lib' = lib /\ pass' = pass)

\* the read of the cache entry comes before every call of the pass that changes
\* the store
ReadAtStart(s) ==
    \A k \in At(s, {"cache_get"}) :
        \A j \in 1..(k - 1) : s.log[j].op \in ReadingOps

\* the read of the cache entry comes when the iterator is exhausted, after the
\* reconciler's calls and before the collector's
ReadAfterReconciler(s) ==
    /\ \A k \in At(s, {"cache_get"}) :
          /\ k > 1 /\ s.log[k - 1].op = "end"
          /\ \A j \in 1..Len(s.log) :
                s.log[j].op \in {"get"} \cup CollectorOps <=> (j > k /\ s.log[j].op # "cache_set")
    /\ At(s, {"cache_get"}) = {} => At(s, {"get"} \cup CollectorOps) = {}

\* C20 as stated: a pass reads its cache entry (media type, instance) exactly
\* once, at its start before any of its store mutations, and writes only that
\* entry, exactly once, as its last step; the entries of every other instance
\* and media type are unchanged by it, and browse only reads.
C20_SnapshotReadAtStart ==
    /\ [](\A p \in Slots : OnceEach(pass[p]) /\ ReadAtStart(pass[p]))
    /\ [][SnapshotFrame]_vars

\* C20, amended: a pass that completes reads its cache entry exactly once,
\* when its iterator is exhausted (after the reconciler's store calls, before
\* the collector's first), and writes only that entry, exactly once, as its
\* last step; a pass that does not complete never writes; the entries of every
\* other instance and media type are unchanged by a pass, and browse only
\* reads.
C20_SnapshotSingleWriter ==
    /\ [](\A p \in Slots : OnceEach(pass[p]) /\ ReadAfterReconciler(pass[p]))
    /\ [][SnapshotFrame]_vars

\* a completed pass changed the store before it read its cache entry and after,
\* the entry of the other instance is present, and browse listed library rows
C20_Witness ==
    \E p \in Slots :
        LET s == pass[p] IN
        /\ s.pc = "done"
        /\ \E k \in At(s, {"cache_get"}) :
              /\ \E j \in 1..(k - 1) : s.log[j].op \notin ReadingOps
              /\ \E j \in (k + 1)..Len(s.log) : s.log[j].op \in CollectorOps
        /\ \E i \in Instances \ {s.inst} : snapshot[s.media_type][i].present
        /\ browsed = "library_items"

\* the set_provider_mappings calls of a pass for a row
DemoteCalls(s, id) ==
    {k \in At(s, {"set_provider_mappings"}) : s.log[k].id = id}

\* C14: when passes of two provider instances have both orphan-collected the
\* same row, overlapping or not, each instance's mappings on the row are
\* afterwards what that instance's own pass wrote: neither write put a stale
\* value back over the other's.
C14_NoLostUpdate ==
    \A p, q \in Slots :
        LET s == pass[p]
            o == pass[q]
        IN
        (/\ s.pc = "done" /\ o.pc = "done"
         /\ s.inst # o.inst /\ s.media_type = o.media_type) =>
            \A id \in 1..Len(lib[s.media_type]) :
                (/\ Exists(lib[s.media_type], id)
                 /\ DemoteCalls(s, id) # {} /\ DemoteCalls(o, id) # {}) =>
                    \A k \in DemoteCalls(s, id) :
                        OwnMappings(s.inst, lib[s.media_type][id].mappings) =
                            OwnMappings(s.inst, s.log[k].written)

\* What one pass that is neither cancelled nor hit by a store error makes of a
\* table: the reconciler loop over the items the iterator yields, in order ...
RECURSIVE Reconciled(_, _, _, _, _, _)
Reconciled(tbl, cur_db_ids, inst, media_type, import_as_favorite, items) ==
    IF items = <<>> THEN [table |-> tbl, cur_db_ids |-> cur_db_ids]
    ELSE LET prov_item == Head(items)
             found == LookupByMappings(tbl, prov_item.maps)
             library_item == IF found = 0 THEN NoneItem ELSE AsItem(found, tbl[found])
             branch == Branch(media_type, inst, library_item, prov_item,
                              import_as_favorite)
             item == ItemForBranch(branch, inst, prov_item, import_as_favorite)
             id == BranchId(tbl, branch, library_item, item)
         IN
         IF branch \in {"skip", "raise"}
         THEN Reconciled(tbl, cur_db_ids, inst, media_type, import_as_favorite,
                         Tail(items))
         ELSE Reconciled(ApplyBranch(tbl, branch, library_item, item),
                         cur_db_ids \cup {id}, inst, media_type, import_as_favorite,
                         Tail(items))

\* ... then the collector loop over the ids of the list read that the
\* reconciler did not find
RECURSIVE Collected(_, _, _)
Collected(tbl, inst, todo) ==
    IF todo = {} THEN tbl
    ELSE LET id == Min(todo) IN
         IF ~Exists(tbl, id) THEN Collected(tbl, inst, todo \ {id})
         ELSE IF OrphanPlan(inst, AsItem(id, tbl[id])) = "demote"
         THEN Collected(SetProviderMappings(tbl, id, Demoted(inst, tbl[id].mappings)),
                        inst, todo \ {id})
         ELSE Collected(RemoveItem(tbl, id), inst, todo \ {id})

\* the table and the cache entry after such a pass started from b
UncancelledPass(b, inst, media_type, import_as_favorite, items) ==
    LET r == Reconciled(b.tables[media_type], {}, inst, media_type,
                        import_as_favorite, items)
    IN [table |-> Collected(r.table, inst, Orphans(b.snap, r.cur_db_ids)),
        snap |-> [present |-> TRUE, ids |-> r.cur_db_ids]]

\* media types whose pass works on one table: no child tracks, no resume
\* state, no recursive removal
OneTable == {"artist", "track", "radio", "podcast"}

\* C12: a pass cancelled at a sleep(0) checkpoint leaves the cache entry of its
\* instance and media type as it found it; and the pass started again over the
\* same catalog ends with the table and the cache entry that one uncancelled
\* pass over that catalog would have ended with, had the cancelled attempt
\* never run. (Stated for the media types of OneTable, for mappings that
\* default to in_library and for catalogs without a corrupt item.)
C12_CancelledPassRetryable ==
    \A p \in Slots :
        LET s == pass[p]
            once == UncancelledPass(s.origin, s.inst, s.media_type,
                                    s.import_as_favorite, s.yields)
        IN
        /\ s.pc = "cancelled" => snapshot[s.media_type][s.inst] = s.base.snap
        /\ (/\ s.retry /\ s.pc = "done"
            /\ s.media_type \in OneTable /\ env.in_library_default
            /\ \A q \in 1..Len(s.yields) : ~Corrupt(s.inst, s.yields[q])) =>
               /\ lib[s.media_type] = once.table
               /\ snapshot[s.media_type][s.inst] = once.snap

\* the (instance, item id) pairs of a mapping list
KeysOf(mappings) == {<<m.inst, m.item>> : m \in mappings}

\* no two mappings of the list share (instance, item id)
UniqueKeys(mappings) == \A m, n \in mappings : SameKey(m, n) => m = n

\* C21: no row of the library has two provider mappings with the same
\* (provider instance, source item id), and the mapping list the collector
\* writes back with set_provider_mappings has the (instance, item id) pairs of
\* the list it read, each once.
C21_MappingKeysUnique ==
    /\ \A t \in StoreTypes : \A id \in 1..Len(lib[t]) : UniqueKeys(lib[t][id].mappings)
    /\ \A p \in Slots :
          \A k \in At(pass[p], {"set_provider_mappings"}) :
              /\ KeysOf(pass[p].log[k].written) = KeysOf(pass[p].log[k].read)
              /\ UniqueKeys(pass[p].log[k].written)

\* the collector wrote the mappings of a row two instances share, and the row
\* still carries both
C21_Witness ==
    \E p \in Slots :
        LET s == pass[p] IN
        \E k \in At(s, {"set_provider_mappings"}) :
            /\ Exists(lib[s.media_type], s.log[k].id)
            /\ Cardinality(KeysOf(lib[s.media_type][s.log[k].id].mappings)) = 2
            /\ Cardinality(KeysOf(s.log[k].written)) = 2

\* the token of a media type for a capability method, none for a media type
\* without one
TokenOf(fn, media_type) ==
    IF media_type = "podcast_episode" THEN {}
    ELSE IF fn = "library_supported" THEN {LibraryFeature(media_type)}
    ELSE {LibraryEditFeature(media_type)}

\* C22: library_supported(T) and library_edit_supported(T) answer true exactly
\* when the Library / LibraryEdit token of T is in the declared feature set,
\* false for a media type without such a token, and a call changes neither the
\* library, the cache, a pass nor the feature set.
C22_CapabilityContract ==
    /\ [](call.fn \in {"library_supported", "library_edit_supported"} =>
             call.result = (TokenOf(call.fn, call.media_type) \cap call.features # {}))
    /\ [][/\ UNCHANGED <<lib, snapshot, pass, npass, faults, promoted, env, browsed>>
          /\ call'.features = call.features]_vars

\* the edit test answered true for a media type whose library token is not
\* declared, on a library that holds a row
C22_Witness ==
    /\ call.fn = "library_edit_supported" /\ call.result
    /\ LibraryFeature(call.media_type) \notin call.features
    /\ \E t \in StoreTypes : Len(lib[t]) > 0

PagesUpTo(g, n) == [k \in 1..n |-> get_playlist_tracks(g, k - 1)]

\* the provider answers some page with nothing
EmptyPage(g) == \E k \in 0..(MaxPages - 1) : get_playlist_tracks(g, k) = <<>>

\* pages are requested in order 0, 1, 2, ...; the tracks yielded are the pages
\* requested so far, in page order and in-page order, up to the place in the
\* current page; the generator ends at the first empty page and only there
InOrder(g) ==
    LET n == Len(g.requested) IN
    /\ \A k \in 1..n : g.requested[k] = k - 1
    /\ \A k \in 1..(n - 1) : get_playlist_tracks(g, k - 1) # <<>>
    /\ g.pc = "yield" =>
          g.yielded = Concat(PagesUpTo(g, n - 1)) \o SubSeq(g.tracks, 1, g.idx)
    /\ g.pc \in {"request", "done"} => g.yielded = Concat(PagesUpTo(g, n))
    /\ g.pc = "done" <=> (n > 0 /\ get_playlist_tracks(g, n - 1) = <<>>)

\* C24 as stated: the above; the generator ends if and only if the provider
\* answers some page with nothing; and on Plex it ends after two requests.
C24_PagesUntilEmptyTwoOnPlex ==
    /\ [](InOrder(call))
    /\ EmptyPage(call) => <>(call.pc \in {"done", "raised"})
    /\ ~EmptyPage(call) => [](call.pc # "done")
    /\ call.provider = "PlexProvider" => <>(call.pc \in {"done", "raised"})
    /\ []((call.provider = "PlexProvider" /\ call.pc = "done") =>
              Len(call.requested) = 2)

\* C24, amended: as stated, but on Plex the generator ends after two requests
\* when the playlist has a track and after one when it has none.
C24_PagesUntilEmpty ==
    /\ [](InOrder(call))
    /\ EmptyPage(call) => <>(call.pc \in {"done", "raised"})
    /\ ~EmptyPage(call) => [](call.pc # "done")
    /\ call.provider = "PlexProvider" => <>(call.pc \in {"done", "raised"})
    /\ []((call.provider = "PlexProvider" /\ call.pc = "done") =>
              Len(call.requested) = IF call.playlist = <<>> THEN 1 ELSE 2)

\* the generator ended at an empty page that is followed by a page with
\* tracks, having yielded the two tracks of the page before it
C24_Witness ==
    /\ call.fn = "iter_playlist_tracks" /\ call.pc = "done"
    /\ Len(call.requested) = 2 /\ Len(call.yielded) = 2
    /\ get_playlist_tracks(call, 2) # <<>>

\* the step is the try block of slot p for an item whose lookup found a library
\* item that is not a favorite, in a pass that imports as favorite, the item is
\* well-formed and the store call does not raise
PromotionDue(p) ==
    LET s == pass[p] IN
    /\ s.pc = "merge" /\ pass'[p] # s /\ faults' = faults
    /\ Present(s.library_item) /\ ~s.library_item.favorite
    /\ s.import_as_favorite
    /\ ~Corrupt(s.inst, s.prov_item)

\* C25: for every media type, an item whose lookup found a library item that is
\* not a favorite, in a pass with import_as_favorite, gets set_favorite(id, True)
\* in that pass, before playlist checksum, track/podcast availability and the
\* mapping check are looked at.
C25_PromotionFirst ==
    [][\A p \in Slots :
          PromotionDue(p) =>
              LET s == pass[p]
                  log == pass'[p].log
              IN /\ Len(log) = Len(s.log) + 1
                 /\ log[Len(log)].op = "set_favorite"
                 /\ log[Len(log)].id = s.library_item.item_id
                 /\ log[Len(log)].pos = s.pos]_vars

\* the stored mappings of the library item for the observed item's
\* (provider instance, item id)
Matching(c) ==
    {x \in c.library_item.mappings :
        /\ x.inst = c.instance_id
        /\ x.item = c.provider_item.item_id}

WellFormedCall(c) ==
    /\ c.fn = "_check_provider_mappings"
    /\ Len(c.provider_item.maps) > 0
    /\ ~Corrupt(c.instance_id, c.provider_item)

\* C26 as stated: for a well-formed observed item the check reports mismatch
\* when the library item has no mapping with the item's (provider instance,
\* item id), and otherwise reports exactly whether the available flags of the
\* observed and the stored mapping are equal; it never changes the library
\* item's mappings; an observed item without mappings yields mismatch.
C26_VerdictIsAvailableEqual ==
    /\ [](WellFormedCall(call) =>
            call.result =
               IF Matching(call) = {} THEN "false"
               ELSE IF \E x \in Matching(call) :
                          x.available = call.provider_item.maps[1].available
                    THEN "true" ELSE "false")
    /\ []((call.fn = "_check_provider_mappings" /\ call.provider_item.maps = <<>>)
              => call.result = "false")
    /\ [][call'.library_item = call.library_item /\ lib' = lib]_vars

\* C26, amended: as stated, but with a stored mapping for the item the check
\* also reports mismatch when that mapping's in_library flag differs from the
\* requested value; only with equal in_library flags is the result whether the
\* available flags are equal.
C26_VerdictIsInLibraryAndAvailableEqual ==
    /\ [](WellFormedCall(call) =>
            call.result =
               IF Matching(call) = {} THEN "false"
               ELSE IF \E x \in Matching(call) : x.in_library # call.in_library
                    THEN "false"
               ELSE IF \E x \in Matching(call) :
                          x.available = call.provider_item.maps[1].available
                    THEN "true" ELSE "false")
    /\ []((call.fn = "_check_provider_mappings" /\ call.provider_item.maps = <<>>)
              => call.result = "false")
    /\ [][call'.library_item = call.library_item /\ lib' = lib]_vars

\* the check was called for a well-formed item whose stored mapping has the
\* same available flag and another in_library flag than requested
C26_Witness ==
    /\ WellFormedCall(call)
    /\ \E x \in Matching(call) :
          /\ x.available = call.provider_item.maps[1].available
          /\ x.in_library # call.in_library
    /\ call.result = "false"

\* the store calls of the Orphan Collector
CollectorCalls == {"get", "remove", "unfavorite", "set_provider_mappings"}

\* the pass has read the cached id list
SnapshotRead(s) == \E j \in 1..Len(s.log) : s.log[j].op = "cache_get"

\* C27: the collector calls get_library_item, remove_item_from_library,
\* set_favorite(False) and set_provider_mappings only for ids that are in the
\* cached id list read and not in cur_db_ids; when no list or an empty list
\* was cached it makes no store call, and the cache is still set to cur_db_ids.
C27_CollectorOnlyOnOrphans ==
    \A p \in Slots :
        LET s == pass[p] IN
        /\ \A j \in 1..Len(s.log) :
              s.log[j].op \in CollectorCalls =>
                 /\ s.prev.present
                 /\ s.log[j].id \in s.prev.ids \ s.cur_db_ids
        /\ s.pc \in {"orphan_get", "orphan_resolve", "orphan_fallback", "orphan_demote"}
              => (s.prev.present /\ s.todo \subseteq s.prev.ids \ s.cur_db_ids)
        /\ s.pc \in {"orphan_resolve", "orphan_fallback", "orphan_demote"}
              => s.db_id \in s.prev.ids \ s.cur_db_ids
        /\ (SnapshotRead(s) /\ (~s.prev.present \/ s.prev.ids = {})) =>
              /\ \A j \in 1..Len(s.log) : s.log[j].op \notin CollectorCalls
              /\ s.pc \in {"persist", "done"}
              /\ s.pc = "done" =>
                    snapshot[s.media_type][s.inst] =
                        [present |-> TRUE, ids |-> s.cur_db_ids]

\* a completed pass whose cached list held an id that was seen again and an
\* id that was not, and the collector removed or demoted the latter
C27_Witness ==
    \E p \in Slots :
        LET s == pass[p] IN
        /\ s.pc = "done" /\ s.prev.present
        /\ s.prev.ids \cap s.cur_db_ids # {}
        /\ \E j \in 1..Len(s.log) :
              s.log[j].op \in {"remove", "set_provider_mappings"}

\* the events of the log where get_library_item raised MediaNotFoundError:
\* nothing was read (a row that exists has a provider mapping)
NotFoundAt(s) == {j \in 1..Len(s.log) : s.log[j].op = "get" /\ s.log[j].read = {}}

\* C28: when get_library_item raises MediaNotFoundError for an id of the
\* previous list that was not seen, the collector makes no mutating call for
\* that id, goes on with the ids left, and the pass still writes cur_db_ids
\* to the cache.
C28_AlreadyRemovedTolerated ==
    \A p \in Slots :
        LET s == pass[p] IN
        \A j \in NotFoundAt(s) :
            /\ \A k \in 1..Len(s.log) :
                  s.log[k].id = s.log[j].id => s.log[k].op \notin CollectorOps
            /\ s.failed_in = "collector" => Len(s.log) > j \/ s.todo # {}
            /\ j = Len(s.log) =>
                  \/ s.pc = "orphan_get" /\ s.todo # {}
                  \/ s.pc = "persist" /\ s.todo = {}
                  \/ s.pc = "failed" /\ s.todo # {}
            /\ j < Len(s.log) =>
                  \/ s.log[j + 1].op = "get" /\ s.log[j + 1].id # s.log[j].id
                  \/ s.log[j + 1].op = "cache_set" /\ s.todo = {}
            /\ s.pc = "done" =>
                  snapshot[s.media_type][s.inst] =
                      [present |-> TRUE, ids |-> s.cur_db_ids]

\* a completed pass whose collector found one id already removed and then
\* removed or demoted the row of another id
C28_Witness ==
    \E p \in Slots :
        LET s == pass[p] IN
        /\ s.pc = "done"
        /\ \E j \in NotFoundAt(s) :
              \E k \in (j + 1)..Len(s.log) :
                  s.log[k].op \in {"remove", "set_provider_mappings"}

\* the store calls of the per-item chain that went through, by log place
ReconcilerAt(s) ==
    {j \in 1..Len(s.log) : s.log[j].op \in {"add", "set_favorite", "update"}}

\* C29: when the catalog iterator raises after it has yielded items, the pass
\* ends there: it makes no remove, no set_provider_mappings and no un-favorite
\* call (it does not read the cached list at all), the cached list of the
\* (provider instance, media type) is the one from before the pass, and what
\* the store calls for the items already processed wrote is still in the store.
C29_IteratorFailureDeletesNothing ==
    \A p \in Slots :
        LET s == pass[p]
            tbl == lib[s.media_type]
        IN
        s.failed_in = "iterator" =>
            /\ s.pc = "failed"
            /\ \A j \in 1..Len(s.log) :
                  s.log[j].op \notin CollectorCalls \cup {"cache_get", "cache_set"}
            /\ snapshot[s.media_type][s.inst] = s.base.snap
            /\ \A j \in ReconcilerAt(s) :
                  LET e == s.log[j] IN
                  /\ Exists(tbl, e.id)
                  /\ e.op = "set_favorite" => tbl[e.id].favorite
                  /\ (\A k \in ReconcilerAt(s) : s.log[k].id = e.id => k <= j)
                        => IF e.written = {}
                           \* the resume-state update of an audiobook
                           THEN tbl[e.id].resume = s.yields[e.pos].resume
                           ELSE tbl[e.id].mappings = e.written

\* the iterator raised after an item was added, with a cached id of the
\* previous pass that was not seen
C29_Witness ==
    \E p \in Slots :
        LET s == pass[p] IN
        /\ s.failed_in = "iterator" /\ s.pc = "failed"
        /\ \E j \in ReconcilerAt(s) : s.log[j].op = "add"
        /\ s.base.snap.present /\ s.base.snap.ids \ s.cur_db_ids # {}

\* the reconciler of the pass is done with a catalog item and about to pull
\* the next one
ItemDone(s) == s.pc = "iter" /\ s.pos > 0

\* the collector of the pass is done with an id of the previous list
OrphanDone(s) ==
    /\ s.pc \in {"orphan_get", "persist"}
    /\ Len(s.log) > 0 /\ s.log[Len(s.log)].op \in CollectorCalls

\* C30: after each catalog item the reconciler passes asyncio.sleep(0), also
\* after an item whose store call raised and after a track skipped as
\* unavailable; after each id of the previous list that was not seen the
\* collector passes asyncio.sleep(0), also after an id found already removed.
C30_CheckpointAfterEachItem ==
    \A p \in Slots :
        LET s == pass[p] IN
        /\ ItemDone(s) => s.pos \in s.item_sleeps
        /\ OrphanDone(s) => s.log[Len(s.log)].id \in s.orphan_sleeps

\* the ids of the remove events of the pass's log
RemovedIds(s) == {s.log[j].id : j \in {k \in 1..Len(s.log) : s.log[k].op = "remove"}}

\* C31: every remove_item_from_library call of the collector has
\* recursive = True when the pass's media type is album and recursive = False
\* for every other media type.
C31_RecursiveOnlyForAlbums ==
    \A p \in Slots :
        LET s == pass[p] IN
        /\ \A r \in s.removes : r[2] = (s.media_type = "album")
        /\ RemovedIds(s) = {r[1] : r \in s.removes}

\* an album pass has removed an album recursively
C31_Witness ==
    \E p \in Slots :
        LET s == pass[p] IN
        /\ s.media_type = "album" /\ s.pc = "done"
        /\ \E r \in s.removes : r[2] /\ ~Exists(lib["album"], r[1])

\* no item of the pass's catalog is a corrupt response, and the catalog does
\* not list one source item with two different contents
CleanCatalog(s) ==
    /\ \A q \in 1..Len(s.script) : ~Corrupt(s.inst, s.script[q])
    /\ \A q, r \in 1..Len(s.script) :
          s.script[q].item_id = s.script[r].item_id => s.script[q] = s.script[r]

MappingsFor(mappings, inst, item_id) ==
    {x \in mappings : x.inst = inst /\ x.item = item_id}

\* the step is the try block of slot p for a well-formed item whose lookup found
\* a library item on which the instance's mapping for it is demoted, and the
\* store call of the step does not raise
ReappearanceDue(p) ==
    LET s == pass[p] IN
    /\ s.pc = "merge" /\ pass'[p] # s /\ faults' = faults
    /\ Present(s.library_item)
    /\ ~Corrupt(s.inst, s.prov_item)
    /\ MappingsFor(s.library_item.mappings, s.inst, s.prov_item.item_id) # {}
    /\ \A x \in MappingsFor(s.library_item.mappings, s.inst, s.prov_item.item_id) :
          ~x.in_library
    /\ Exists(lib[s.media_type], s.library_item.item_id)

\* the step adds no row, keeps the id for the id list of the pass, and leaves
\* the library item of the id in place
Reused(p) ==
    LET s == pass[p]
        id == s.library_item.item_id
        log == pass'[p].log
    IN /\ Len(lib'[s.media_type]) = Len(lib[s.media_type])
       /\ Exists(lib'[s.media_type], id)
       /\ \A j \in (Len(s.log) + 1)..Len(log) : log[j].op # "add"
       /\ id \in pass'[p].cur_db_ids \/ pass'[p].pc = "resume"

\* the step calls update_item_in_library for the id and the instance's mapping
\* for the item is in the library afterwards
Repromoted(p) ==
    LET s == pass[p]
        id == s.library_item.item_id
        log == pass'[p].log
    IN /\ Len(log) = Len(s.log) + 1
       /\ log[Len(log)].op = "update" /\ log[Len(log)].id = id
       /\ \A x \in MappingsFor(lib'[s.media_type][id].mappings, s.inst,
                               s.prov_item.item_id) : x.in_library

\* the branches of the chain that come before the mapping check
TypeChangeDue(s) ==
    \/ /\ s.media_type \in {"track", "podcast"}
       /\ ItemAvailable(s.library_item.mappings) # ItemAvailable(RangeOf(s.prov_item.maps))
    \/ /\ s.media_type = "playlist"
       /\ s.library_item.cache_checksum # s.prov_item.cache_checksum

FavoriteDue(s) == ~s.library_item.favorite /\ s.import_as_favorite

\* C33 as stated: when a pass yields a source item whose library item was
\* demoted for the instance, the pass reuses the library item (no add), puts
\* its id in cur_db_ids and calls update_item_in_library in that same pass, so
\* that the mapping's in_library is true again. (Stated for providers whose
\* mappings arrive with in_library set, so that a mapping with in_library
\* false is one the collector has demoted.)
C33_RepromotedInSamePass ==
    [][\A p \in Slots :
          (env.in_library_default /\ ReappearanceDue(p)) =>
              (Reused(p) /\ Repromoted(p))]_vars

\* C33, amended: the pass reuses the library item and puts its id in
\* cur_db_ids; it calls the update that makes in_library true again in that
\* same pass unless the item takes an earlier branch of the chain: with a
\* type-specific change, or for a library item that is not a favorite in a pass
\* with import_as_favorite, the pass makes that branch's call only and the
\* mapping check is left to a later pass.
C33_RepromotedUnlessEarlierBranch ==
    [][\A p \in Slots :
          ReappearanceDue(p) =>
              LET s == pass[p]
                  log == pass'[p].log
              IN /\ Reused(p)
                 /\ (~TypeChangeDue(s) /\ ~FavoriteDue(s)) => Repromoted(p)
                 /\ (~TypeChangeDue(s) /\ FavoriteDue(s)) =>
                       /\ Len(log) = Len(s.log) + 1
                       /\ log[Len(log)].op = "set_favorite"
                       /\ lib'[s.media_type][s.library_item.item_id].mappings
                             = lib[s.media_type][s.library_item.item_id].mappings]_vars

\* a demoted mapping is in the library again after a pass that yielded its
\* source item, on a library item that other instances hold too
C33_Witness ==
    \E p \in Slots :
        LET s == pass[p] IN
        /\ s.pc = "done"
        /\ \E j \in 1..Len(s.log) :
              /\ s.log[j].op = "update"
              /\ \E x \in s.log[j].read : x.inst = s.inst /\ ~x.in_library
              /\ \E x \in s.log[j].written : x.inst = s.inst /\ x.in_library
              /\ \E x \in s.log[j].read : x.inst # s.inst

\* the seeded artist (row 1) was in the library of both instances, and each
\* instance has run and completed one pass, one after the other, in which it
\* did not see the artist
BothDropped ==
    /\ env.scope = {"artist"} /\ env.owners = Instances
    /\ npass = 2
    /\ \A i \in Instances :
          /\ snapshot["artist"][i].present
          /\ 1 \notin snapshot["artist"][i].ids

\* C34: when a library item is held by exactly two provider instances and both
\* drop it from their catalogs, then after each instance has completed one
\* pass, in either order, the item is removed; or, when a store call of the
\* removal raised, it is still there with favorite = false and without a
\* mapping that has in_library = true.
C34_BothDroppedRemoved ==
    BothDropped =>
        \/ ~Exists(lib["artist"], 1)
        \/ /\ faults > 0
           /\ ~lib["artist"][1].favorite
           /\ \A m \in lib["artist"][1].mappings : ~m.in_library

\* both instances have dropped the artist, P2 first, and its row is gone
C34_Witness ==
    /\ BothDropped
    /\ ~Exists(lib["artist"], 1)
    /\ pass[1].inst = "P1" /\ pass[1].pc = "done"
    /\ <<"remove", "artist", 1>> \in pass[1].calls

\* when the pass started, the row was in the table with mappings of the pass's
\* instance, none of them in the library, and its id was not in the cached id
\* list of the instance: a pass of the instance has demoted it
DemotedBefore(s, id) ==
    LET tbl == s.base.tables[s.media_type] IN
    /\ Exists(tbl, id)
    /\ \E m \in tbl[id].mappings : m.inst = s.inst
    /\ \A m \in tbl[id].mappings : m.inst = s.inst => ~m.in_library
    /\ s.base.snap.present /\ id \notin s.base.snap.ids

\* the pass's catalog has yielded none of the source items of the row
StillAbsent(s, id) ==
    \A q \in 1..Len(s.yields) :
        \A m \in s.base.tables[s.media_type][id].mappings :
            m.inst = s.inst =>
               /\ s.yields[q].item_id # m.item
               /\ \A k \in 1..Len(s.yields[q].maps) : s.yields[q].maps[k].item # m.item

\* the store calls on the table of the pass's media type
ParentOps ==
    {"lookup", "add", "set_favorite", "update", "get", "remove", "unfavorite",
     "set_provider_mappings"}

\* C35: a row that a pass of the instance has demoted is not in the id list
\* the instance cached, so a later pass of the instance whose catalog still
\* lacks the item makes no store call on that row, and the row stays in the
\* library as it is.
C35_DemotedNotRetried ==
    \A p \in Slots :
        LET s == pass[p]
            mt == s.media_type
        IN
        s.pc \notin {"idle", "rejected"} =>
            \A id \in 1..Len(s.base.tables[mt]) :
                (DemotedBefore(s, id) /\ StillAbsent(s, id)) =>
                    /\ \A j \in 1..Len(s.log) :
                          s.log[j].op \in ParentOps => s.log[j].id # id
                    /\ id \notin s.todo /\ s.db_id # id
                    /\ lib[mt][id] = s.base.tables[mt][id]

\* a later pass of the instance has run its collector on another id and is
\* complete, and the row demoted before is still there
C35_Witness ==
    \E p \in Slots :
        LET s == pass[p] IN
        /\ s.pc = "done" /\ s.prev.present
        /\ \E id \in 1..Len(s.base.tables[s.media_type]) :
              /\ DemotedBefore(s, id) /\ StillAbsent(s, id)
              /\ \E m \in s.base.tables[s.media_type][id].mappings :
                    m.inst # s.inst /\ m.in_library
        /\ \E j \in 1..Len(s.log) : s.log[j].op \in CollectorCalls

\* the step is the try block of a track pass in slot p for an observed track
\* that is not available, and no store call of the step raises
UnavailableTrackDue(p) ==
    LET s == pass[p] IN
    /\ s.media_type = "track"
    /\ s.pc = "merge" /\ pass'[p] # s /\ faults' = faults
    /\ ~ItemAvailable(RangeOf(s.prov_item.maps))

\* C36: in a track pass, an observed track that is not available and has no
\* library item causes no store call and adds no id to cur_db_ids (and so none
\* to the cached id list); an observed track that is not available and has a
\* library item is processed: its id is added to cur_db_ids, and when the
\* library item was available update_item_in_library is called for it.
C36_UnavailableNewTrackSkipped ==
    /\ [][\A p \in Slots :
            UnavailableTrackDue(p) =>
                LET s == pass[p]
                    t == pass'[p]
                IN IF ~Present(s.library_item)
                   THEN /\ lib' = lib
                        /\ t.log = s.log /\ t.calls = s.calls
                        /\ t.cur_db_ids = s.cur_db_ids
                        /\ t.pc = "iter"
                   ELSE /\ s.library_item.item_id \in t.cur_db_ids
                        /\ ItemAvailable(s.library_item.mappings) =>
                              /\ Len(t.log) = Len(s.log) + 1
                              /\ t.log[Len(t.log)].op = "update"
                              /\ t.log[Len(t.log)].id = s.library_item.item_id
                              /\ ~ItemAvailable(MappingsFor(
                                     lib'["track"][s.library_item.item_id].mappings,
                                     s.inst, s.prov_item.item_id))]_vars
    /\ [](\A p \in Slots :
            LET s == pass[p] IN
            (s.media_type = "track" /\ s.pc = "done" /\ s.raised = {}) =>
                snapshot["track"][s.inst].ids =
                    {s.log[j].id : j \in {k \in 1..Len(s.log) :
                         s.log[k].op = "add" \/ (s.log[k].op = "lookup" /\ s.log[k].id # 0)}})

\* a completed track pass has skipped a new track that was not available
\* and has updated the library item of another track that was observed as
\* not available (no store call of the run has raised)
C36_Witness ==
    \E p \in Slots :
        LET s == pass[p] IN
        /\ s.media_type = "track" /\ s.pc = "done"
        /\ faults = 0
        /\ \E q \in 1..Len(s.yields) :
              /\ ~ItemAvailable(RangeOf(s.yields[q].maps))
              /\ \A j \in 1..Len(s.log) : s.log[j].pos = q => s.log[j].id = 0
        /\ \E j \in 1..Len(s.log) :
              /\ s.log[j].op = "update"
              /\ ~ItemAvailable(RangeOf(s.yields[s.log[j].pos].maps))
              /\ s.log[j].id \in snapshot["track"][s.inst].ids

ChildSteps == {"child_fetch", "child_lookup", "child_merge"}

\* the pass in slot p takes a step of _sync_album_tracks / _sync_playlist_tracks
ChildStep(p) == pass[p].pc \in ChildSteps /\ pass'[p] # pass[p]

\* the library ids of the parent item the pass is at
ParentIds(s) ==
    {s.log[j].id : j \in {k \in 1..Len(s.log) :
         /\ s.log[k].pos = s.pos
         /\ s.log[k].op \in ParentOps
         /\ s.log[k].id # 0}}

\* C37: the sync of child tracks leaves the result of the album / playlist
\* pass alone. A step of the child sync, raising or not, leaves cur_db_ids and
\* the table of the parent media type unchanged, keeps the parent's id in
\* cur_db_ids and goes on with the pass; a track it adds is not favorite and a
\* track it updates keeps its favorite flag, whatever import_as_favorite is.
\* After a playlist whose own store calls did not raise, the child sync is
\* entered exactly when the playlist's name or uri is in the config value,
\* whichever branch of the chain the playlist took.
C37_ChildSyncLeavesParentResult ==
    /\ [][\A p \in Slots :
            ChildStep(p) =>
                LET s == pass[p]
                    t == pass'[p]
                IN /\ t.cur_db_ids = s.cur_db_ids
                   /\ ParentIds(s) # {} /\ ParentIds(s) \subseteq t.cur_db_ids
                   /\ lib'[s.media_type] = lib[s.media_type]
                   /\ t.pc \in ChildSteps \cup {"iter"}
                   /\ \A j \in (Len(s.log) + 1)..Len(t.log) :
                         t.log[j].op \in {"child_lookup", "child_add", "child_update"}
                   /\ \A id \in 1..Len(lib'["track"]) :
                         Exists(lib'["track"], id) =>
                            lib'["track"][id].favorite =
                               (Exists(lib["track"], id) /\ lib["track"][id].favorite)]_vars
    /\ [][\A p \in Slots :
            LET s == pass[p]
                t == pass'[p]
            IN (/\ s.media_type = "playlist" /\ s.pc = "merge" /\ t # s
                /\ s.pos \notin t.raised) =>
                   (t.pc = "child_fetch" <=>
                       \/ NameOf("playlist", s.prov_item) \in env.playlist_tracks
                       \/ UriOf("playlist", s.prov_item) \in env.playlist_tracks)]_vars

\* a completed playlist pass importing as favorite, the playlist listed by its
\* uri: the tracks of the playlist were synced after an update for a changed
\* checksum and again after an observation that changed no checksum, the
\* fetch of a page of tracks raised, the playlist's id is in the cached list
\* and the track added is not favorite
C37_Witness ==
    \E p \in Slots :
        LET s == pass[p]
            Ops(q) == {s.log[j].op : j \in {k \in 1..Len(s.log) : s.log[k].pos = q}}
        IN
        /\ s.media_type = "playlist" /\ s.pc = "done" /\ s.import_as_favorite
        /\ env.playlist_tracks = {"P1://playlist/a"}
        /\ \E q \in 1..Len(s.yields) : {"update", "child_add"} \subseteq Ops(q)
        /\ \E q \in 1..Len(s.yields) :
              /\ "child_lookup" \in Ops(q) /\ "update" \notin Ops(q)
              /\ q \in s.raised
        /\ snapshot["playlist"][s.inst].ids = {1}
        /\ Exists(lib["track"], 1) /\ ~lib["track"][1].favorite

\* the observed item supplies both a resume position and a fully-played value
BothSupplied(prov_item) ==
    /\ prov_item.resume.resume_position_ms # -1
    /\ prov_item.resume.fully_played # "None"

\* the calls an audiobook pass has made for the catalog item at place q
CallsAt(s, q) ==
    {s.log[j].op : j \in {k \in 1..Len(s.log) : s.log[k].pos = q /\ s.log[k].id # 0}}

\* C38: in an audiobook pass, once the if/elif chain of an item is through
\* without raising, the resume-state update is requested exactly when the
\* observed item supplies both a resume position and a fully-played value and
\* one of them differs from the library item's, whichever branch of the chain
\* ran; the request is an update_item_in_library call for that item, after
\* which the library item holds both observed values; with one of the
\* observed values missing there is no such request.
C38_ResumeUpdateWhenBothSuppliedAndChanged ==
    /\ [][\A p \in Slots :
            LET s == pass[p]
                t == pass'[p]
                id == t.library_item.item_id
            IN (/\ s.media_type = "audiobook" /\ s.pc = "merge" /\ t # s
                /\ s.pos \notin t.raised) =>
                   /\ id # 0 /\ Exists(lib'["audiobook"], id)
                   /\ t.pc = "resume" <=>
                         /\ BothSupplied(s.prov_item)
                         /\ lib'["audiobook"][id].resume # s.prov_item.resume
                   /\ t.pc # "resume" => id \in t.cur_db_ids]_vars
    /\ [][\A p \in Slots :
            LET s == pass[p]
                t == pass'[p]
                id == s.library_item.item_id
            IN (s.pc = "resume" /\ t # s /\ faults' = faults) =>
                   /\ s.media_type = "audiobook"
                   /\ Len(t.log) = Len(s.log) + 1
                   /\ t.log[Len(t.log)].op = "update"
                   /\ t.log[Len(t.log)].id = id
                   /\ t.log[Len(t.log)].pos = s.pos
                   /\ <<"update", "audiobook", id>> \in t.calls
                   /\ lib'["audiobook"][id].resume = s.prov_item.resume
                   /\ id \in t.cur_db_ids]_vars
    /\ [](\A p \in Slots :
            pass[p].pc = "resume" => BothSupplied(pass[p].prov_item))

\* a completed audiobook pass importing as favorite made two store calls for
\* one observed item, set_favorite and then the resume-state update, and no
\* update for an observed item that supplied a fully-played value only
\* although it differs from the library item's
C38_Witness ==
    \E p \in Slots :
        LET s == pass[p] IN
        /\ s.media_type = "audiobook" /\ s.pc = "done" /\ s.import_as_favorite
        /\ faults = 0
        /\ \E q \in 1..Len(s.yields) :
              /\ BothSupplied(s.yields[q])
              /\ \E j \in 1..Len(s.log), k \in 1..Len(s.log) :
                    /\ j < k
                    /\ s.log[j].pos = q /\ s.log[j].op = "set_favorite"
                    /\ s.log[k].pos = q /\ s.log[k].op = "update"
        /\ \E q \in 1..Len(s.yields) :
              /\ s.yields[q].resume = Resume(-1, "True")
              /\ "update" \notin CallsAt(s, q)
              /\ \E id \in s.cur_db_ids :
                    lib["audiobook"][id].resume.fully_played # "True"
====
